---------------------------- MODULE Spec2Model ----------------------------
(***************************************************************************)
(* CANopen SDO client: the Connection Manager event loop of               *)
(* canopen-viewer/src/canopen/connect.rs together with the SDO codec of   *)
(* canopen-common/src/sdo.rs.                                              *)
(*                                                                         *)
(* Time is counted in units of 5 ms.  An Instant is modelled by the time   *)
(* elapsed since it was taken (saturating just above the timeout, which   *)
(* is all check_timeout can observe).                                      *)
(***************************************************************************)
EXTENDS Integers, Sequences, FiniteSets, TLC

(***************************************************************************)
(* Bounds of the model                                                     *)
(***************************************************************************)
\* read/write commands submitted over a run with two devices
MaxOps == 2
\* read/write commands submitted over a run with one device
MaxQueueOps == 3
\* read/write commands submitted over a run with raw-frame subscribers
MaxFanoutOps == 1
\* operations admitted where socket writes may fail
MaxFaultOps == 2
\* operations admitted where callers may stop waiting
MaxAbortOps == 2
\* operations admitted where the responses to writes are observed
MaxWriteOps == 2
\* frames the mock node reads over a run in which it is driven on its own
MaxServerFrames == 2
\* reads admitted where the mock node answers the manager
MaxEndToEndOps == 2
\* mapping entries of a TPDO configuration that passes validation
MaxMappings == 2

\* the largest mapped-object count the device reports to discovery
MaxMapped == 2

\* the TPDO numbers the device may report to the merge
MaxMergeTpdos == 2

\* sessions held at a time, and reads issued, where any u8 may be registered
MaxRegistered == 2
MaxRegisterOps == 1

\* reads issued while unrelated frames keep arriving
MaxStarveOps == 2

\* fields mapped into a periodic frame that is decoded
MaxFields == 2
\* commands the communication thread takes where TPDO listeners are observed
MaxListenerCommands == 3
\* frames the connection hands to the raw-frame subscribers of the listeners
MaxListenerFrames == 2
\* default_timeout handed to CANopenConnection::new, in time units
default_timeout == 3
\* raw-frame subscriptions made over a run
MaxSubs == 2
\* frames a raw-frame subscriber may hold unread
MaxSubQueue == 1
\* frames a subscriber keeps unread where the order of delivery is observed
MaxOrderQueue == 3

\* the 10 ms sleep of the select loop, in time units
TickInterval == 2

\* device identifiers for which add_node / RemoveNode are issued
NodeIds == {1, 2}

\* node_id: u8 of CANopenConnection::add_node: both ends of the u8 range, both
\* ends of the CANopen range and the first value above it
RegisterIds == {0, 1, 127, 128, 255}

None == <<>>
Some(x) == <<x>>
is_none(o) == o = <<>>

(***************************************************************************)
(* Bytes and little-endian integers                                        *)
(***************************************************************************)
Byte == 0..255

\* value & mask for a mask that is a run of bits  lo*(2^k - 1)
BitField(value, lo, width) == (value \div lo) % width

\* faulty variant: the most significant byte comes first
u16_from_be_bytes(b0, b1) == b1 + 256 * b0

u16_from_le_bytes(b0, b1) == b0 + 256 * b1

\* u32::from_le_bytes.  The checker's integers are 32 bits wide: a value with
\* bit 31 set is held as the same 32-bit pattern, that is as value - 2^32, and
\* the fields of a u32 are taken with Bit31, \div (which rounds down) and %
u32_from_le_bytes(b0, b1, b2, b3) ==
    b0 + 256 * b1 + 65536 * b2 + 16777216 * (IF b3 >= 128 THEN b3 - 256 ELSE b3)

\* value & 0x8000_0000 != 0 for a u32 held as above
Bit31(value) == value < 0

\* i32::from_le_bytes: the top byte carries the sign
i32_from_le_bytes(b0, b1, b2, b3) ==
    b0 + 256 * b1 + 65536 * b2 + 16777216 * (IF b3 >= 128 THEN b3 - 256 ELSE b3)

u32_to_le_bytes(v) ==
    << v % 256, (v \div 256) % 256, (v \div 65536) % 256, (v \div 16777216) % 256 >>

\* a | b on unsigned integers
RECURSIVE BitOr(_, _)
BitOr(a, b) ==
    IF a = 0 THEN b
    ELSE IF b = 0 THEN a
    ELSE (IF a % 2 = 1 \/ b % 2 = 1 THEN 1 ELSE 0) + 2 * BitOr(a \div 2, b \div 2)

u16_to_le_bytes(v) == << v % 256, (v \div 256) % 256 >>

(***************************************************************************)
(* SdoError and its Display text                                           *)
(***************************************************************************)
SocketError(msg) == [kind |-> "SocketError", code |-> 0, msg |-> msg]
Timeout == [kind |-> "Timeout", code |-> 0, msg |-> <<>>]
InvalidResponse(msg) == [kind |-> "InvalidResponse", code |-> 0, msg |-> msg]
AbortTransfer(code, info) == [kind |-> "AbortTransfer", code |-> code, msg |-> info]
ParseError(msg) == [kind |-> "ParseError", code |-> 0, msg |-> msg]

Ok(v) == [ok |-> TRUE, val |-> v]
Err(e) == [ok |-> FALSE, err |-> e]
Panic == [panic |-> TRUE]
is_panic(r) == "panic" \in DOMAIN r
is_ok(r) == "ok" \in DOMAIN r /\ r.ok
is_err(r) == "ok" \in DOMAIN r /\ ~r.ok

\* impl fmt::Display for SdoError: the pieces of the formatted text, in order
SdoErrorToString(e) ==
    CASE e.kind = "SocketError" -> <<"Socket error: ">> \o e.msg
      [] e.kind = "Timeout" -> <<"SDO request timeout">>
      [] e.kind = "InvalidResponse" -> <<"Invalid response: ">> \o e.msg
      [] e.kind = "AbortTransfer" -> <<"SDO abort 0x", e.code, ": ">> \o e.msg
      [] e.kind = "ParseError" -> <<"Parse error: ">> \o e.msg

(***************************************************************************)
(* SDO codec (canopen-common/src/sdo.rs)                                   *)
(***************************************************************************)
InitiateUploadRequest == 64
AbortTransferCmd == 128

\* faulty variant: every upload response (top bits 010) is taken as expedited
is_expedited_response_any(value) == BitField(value, 32, 8) = 2

is_expedited_response(value) ==
    BitField(value, 32, 8) = 2 /\ BitField(value, 2, 2) # 0

SdoRequest(node_id, index, subindex, expected_type) ==
    [node_id |-> node_id, index |-> index, subindex |-> subindex,
     expected_type |-> expected_type]

SdoWriteRequest(node_id, index, subindex, data) ==
    [node_id |-> node_id, index |-> index, subindex |-> subindex, data |-> data]

\* a CAN frame: identifier (standard or extended) and 0..8 data bytes
CanFrame(ext, id, data) == [ext |-> ext, id |-> id, data |-> data]

create_sdo_request_frame(request) ==
    IF 1536 + request.node_id > 2047
    THEN Err(InvalidResponse(<<"Invalid CAN ID">>))
    ELSE Ok(CanFrame(FALSE, 1536 + request.node_id,
                     << InitiateUploadRequest,
                        request.index % 256, (request.index \div 256) % 256,
                        request.subindex, 0, 0, 0, 0 >>))

\* faulty variant: every code is rendered by the hexadecimal fallback
get_abort_code_description_hex(code) == <<"Unknown abort code: 0x", code>>

get_abort_code_description(code) ==
    CASE code = 84082688  -> <<"Toggle bit not alternated">>
      [] code = 84148224  -> <<"SDO protocol timed out">>
      [] code = 84148225  -> <<"Client/server command specifier not valid or unknown">>
      [] code = 84148229  -> <<"Out of memory">>
      [] code = 100728832 -> <<"Unsupported access to an object">>
      [] code = 100728833 -> <<"Attempt to read a write only object">>
      [] code = 100728834 -> <<"Attempt to write a read only object">>
      [] code = 100794368 -> <<"Object does not exist in the object dictionary">>
      [] code = 100925505 -> <<"Object cannot be mapped to the PDO">>
      [] code = 100925506 -> <<"The number and length of the objects to be mapped would exceed PDO length">>
      [] code = 100925507 -> <<"General parameter incompatibility reason">>
      [] code = 100925511 -> <<"General internal incompatibility in the device">>
      [] code = 101056512 -> <<"Access failed due to a hardware error">>
      [] code = 101122064 -> <<"Data type does not match, length of service parameter does not match">>
      [] code = 101122066 -> <<"Data type does not match, length of service parameter too high">>
      [] code = 101122067 -> <<"Data type does not match, length of service parameter too low">>
      [] code = 101253137 -> <<"Sub-index does not exist">>
      [] code = 101253168 -> <<"Value range of parameter exceeded (only for write access)">>
      [] code = 101253169 -> <<"Value of parameter written too high">>
      [] code = 101253170 -> <<"Value of parameter written too low">>
      [] code = 101253174 -> <<"Maximum value is less than minimum value">>
      [] code = 134217728 -> <<"General error">>
      [] code = 134217760 -> <<"Data cannot be transferred or stored to the application">>
      [] code = 134217761 -> <<"Data cannot be transferred or stored to the application because of local control">>
      [] code = 134217762 -> <<"Data cannot be transferred or stored to the application because of the present device state">>
      [] OTHER -> <<"Unknown abort code: 0x", code>>

\* i8 / i16 reinterpretation of an unsigned little-endian read
as_signed(v, bits) == IF v >= bits \div 2 THEN v - bits ELSE v

TrimTrailingNul(s) ==
    LET keep == {i \in 1..Len(s) : \E j \in i..Len(s) : s[j] # 0}
    IN  SubSeq(s, 1, Cardinality(keep))

parse_payload(payload, data_type) ==
    CASE data_type = "UInt8" ->
            IF Len(payload) >= 1
            THEN Ok([type |-> "UInt8", v |-> <<payload[1]>>])
            ELSE Err(ParseError(<<"Insufficient data for UInt8">>))
      [] data_type = "UInt16" ->
            IF Len(payload) >= 2
            THEN Ok([type |-> "UInt16",
                     v |-> <<u16_from_le_bytes(payload[1], payload[2])>>])
            ELSE Err(ParseError(<<"Insufficient data for UInt16">>))
      [] data_type = "UInt32" ->
            IF Len(payload) >= 4
            THEN Ok([type |-> "UInt32",
                     v |-> <<u32_from_le_bytes(payload[1], payload[2],
                                               payload[3], payload[4])>>])
            ELSE Err(ParseError(<<"Insufficient data for UInt32">>))
      [] data_type = "Int8" ->
            IF Len(payload) >= 1
            THEN Ok([type |-> "Int8", v |-> <<as_signed(payload[1], 256)>>])
            ELSE Err(ParseError(<<"Insufficient data for Int8">>))
      [] data_type = "Int16" ->
            IF Len(payload) >= 2
            THEN Ok([type |-> "Int16",
                     v |-> <<as_signed(u16_from_le_bytes(payload[1], payload[2]),
                                       65536)>>])
            ELSE Err(ParseError(<<"Insufficient data for Int16">>))
      [] data_type = "Int32" ->
            IF Len(payload) >= 4
            THEN Ok([type |-> "Int32",
                     v |-> <<i32_from_le_bytes(payload[1], payload[2],
                                               payload[3], payload[4])>>])
            ELSE Err(ParseError(<<"Insufficient data for Int32">>))
      [] data_type = "Real32" ->
            IF Len(payload) >= 4
            THEN Ok([type |-> "Real32",
                     v |-> <<payload[1], payload[2], payload[3], payload[4]>>])
            ELSE Err(ParseError(<<"Insufficient data for Real32">>))
      [] data_type = "VisibleString" ->
            Ok([type |-> "String", v |-> TrimTrailingNul(payload)])
      [] data_type = "OctetString" ->
            Ok([type |-> "Bytes", v |-> payload])

SdoResponse(node_id, index, subindex, data, raw_data) ==
    [node_id |-> node_id, index |-> index, subindex |-> subindex,
     data |-> data, raw_data |-> raw_data]

\* faulty variant: the abort check comes before the index/sub-index check
parse_sdo_response_abort_first(frame, request) ==
    LET data == frame.data IN
    IF Len(data) < 4
    THEN Err(InvalidResponse(<<"Frame too short">>))
    ELSE
      LET command == data[1]
          index == u16_from_le_bytes(data[2], data[3])
          subindex == data[4]
      IN
      IF command = AbortTransferCmd
      THEN LET abort_code == IF Len(data) >= 8
                             THEN u32_from_le_bytes(data[5], data[6], data[7], data[8])
                             ELSE 0
           IN  Err(AbortTransfer(abort_code, get_abort_code_description(abort_code)))
      ELSE IF index # request.index \/ subindex # request.subindex
      THEN Err(InvalidResponse(<<"Response mismatch: expected, got",
                                 request.index, request.subindex, index, subindex>>))
      ELSE IF is_expedited_response(command)
      THEN LET n == BitField(command, 4, 4)
               data_size == 4 - n
           IN  IF 4 + data_size > Len(data)
               THEN Panic   \* &data[4..4 + data_size] out of range
               ELSE LET response_data ==
                            parse_payload(SubSeq(data, 5, 4 + data_size),
                                          request.expected_type)
                    IN  IF is_ok(response_data)
                        THEN Ok(SdoResponse(request.node_id, request.index,
                                            request.subindex, response_data.val, data))
                        ELSE response_data
      ELSE Err(InvalidResponse(<<"Segmented SDO transfer not implemented yet (command)",
                                 command>>))

\* faulty variant: the payload is always the four bytes after the header
parse_sdo_response_full_payload(frame, request) ==
    LET data == frame.data IN
    IF Len(data) < 4
    THEN Err(InvalidResponse(<<"Frame too short">>))
    ELSE
      LET command == data[1]
          index == u16_from_le_bytes(data[2], data[3])
          subindex == data[4]
      IN
      IF index # request.index \/ subindex # request.subindex
      THEN Err(InvalidResponse(<<"Response mismatch: expected, got",
                                 request.index, request.subindex, index, subindex>>))
      ELSE IF command = AbortTransferCmd
      THEN LET abort_code == IF Len(data) >= 8
                             THEN u32_from_le_bytes(data[5], data[6], data[7], data[8])
                             ELSE 0
           IN  Err(AbortTransfer(abort_code, get_abort_code_description(abort_code)))
      ELSE IF is_expedited_response(command)
      THEN IF 8 > Len(data)
           THEN Panic
           ELSE LET response_data ==
                        parse_payload(SubSeq(data, 5, 8), request.expected_type)
                IN  IF is_ok(response_data)
                    THEN Ok(SdoResponse(request.node_id, request.index,
                                        request.subindex, response_data.val, data))
                    ELSE response_data
      ELSE Err(InvalidResponse(<<"Segmented SDO transfer not implemented yet (command)",
                                 command>>))

\* frame.data() is 1-indexed here: data[k] of the source is data[k+1]
parse_sdo_response(frame, request) ==
    LET data == frame.data IN
    IF Len(data) < 4
    THEN Err(InvalidResponse(<<"Frame too short">>))
    ELSE
      LET command == data[1]
          index == u16_from_le_bytes(data[2], data[3])
          subindex == data[4]
      IN
      IF index # request.index \/ subindex # request.subindex
      THEN Err(InvalidResponse(<<"Response mismatch: expected, got",
                                 request.index, request.subindex, index, subindex>>))
      ELSE IF command = AbortTransferCmd
      THEN LET abort_code == IF Len(data) >= 8
                             THEN u32_from_le_bytes(data[5], data[6], data[7], data[8])
                             ELSE 0
           IN  Err(AbortTransfer(abort_code, get_abort_code_description(abort_code)))
      ELSE IF is_expedited_response(command)
      THEN LET n == BitField(command, 4, 4)
               data_size == 4 - n
           IN  IF 4 + data_size > Len(data)
               THEN Panic   \* &data[4..4 + data_size] out of range
               ELSE LET response_data ==
                            parse_payload(SubSeq(data, 5, 4 + data_size),
                                          request.expected_type)
                    IN  IF is_ok(response_data)
                        THEN Ok(SdoResponse(request.node_id, request.index,
                                            request.subindex, response_data.val, data))
                        ELSE response_data
      ELSE Err(InvalidResponse(<<"Segmented SDO transfer not implemented yet (command)",
                                 command>>))


\* Not under src/: modelled from the wire format of the specification
\* (byte0 = 0x23 | (unused << 2), payload of at most 4 bytes).
create_sdo_write_frame(request) ==
    IF Len(request.data) > 4
    THEN Err(InvalidResponse(<<"Data too long for expedited transfer">>))
    ELSE IF 1536 + request.node_id > 2047
    THEN Err(InvalidResponse(<<"Invalid CAN ID">>))
    ELSE Ok(CanFrame(FALSE, 1536 + request.node_id,
                     << 35 + 4 * (4 - Len(request.data)),
                        request.index % 256, (request.index \div 256) % 256,
                        request.subindex >>
                     \o request.data
                     \o [i \in 1..(4 - Len(request.data)) |-> 0]))

\* Not under src/: modelled from the specification (valid only if the frame
\* echoes 0x60 with matching index/sub-index; mismatch is independent of the
\* command byte; an abort carries its code).
parse_sdo_write_response(frame, request) ==
    LET data == frame.data IN
    IF Len(data) < 4
    THEN Err(InvalidResponse(<<"Frame too short">>))
    ELSE
      LET command == data[1]
          index == u16_from_le_bytes(data[2], data[3])
          subindex == data[4]
      IN
      IF index # request.index \/ subindex # request.subindex
      THEN Err(InvalidResponse(<<"Response mismatch: expected, got",
                                 request.index, request.subindex, index, subindex>>))
      ELSE IF command = AbortTransferCmd
      THEN LET abort_code == IF Len(data) >= 8
                             THEN u32_from_le_bytes(data[5], data[6], data[7], data[8])
                             ELSE 0
           IN  Err(AbortTransfer(abort_code, get_abort_code_description(abort_code)))
      ELSE IF command = 96
      THEN Ok(<<>>)
      ELSE Err(InvalidResponse(<<"Unexpected SDO write response (command)", command>>))

(***************************************************************************)
(* Mock node (mock-canopen-node/src): object dictionary and SDO server     *)
(***************************************************************************)
\* ObjectEntry::Static(data, type)
Static(data, data_type) ==
    [dynamic |-> FALSE, data |-> data, data_type |-> data_type]

\* ObjectEntry::Dynamic(generator, type) for the generator that counts: the
\* entry holds the value its next read gives
Dynamic(counter, data_type) ==
    [dynamic |-> TRUE, counter |-> counter, data_type |-> data_type]

\* faulty variant: the generator of a dynamic entry is not run again, the value
\* of its first read is given on every read
ObjectDictionary_get_cached(entries, index, subindex) ==
    IF <<index, subindex>> \notin DOMAIN entries
    THEN [entries |-> entries, found |-> None]
    ELSE LET entry == entries[<<index, subindex>>] IN
         [entries |-> entries,
          found |-> Some(<<IF entry.dynamic THEN u32_to_le_bytes(entry.counter)
                                            ELSE entry.data,
                           entry.data_type>>)]

\* ObjectDictionary::get: Option<(Vec<u8>, SdoDataType)> and the entries after
\* the call (fetch_add moves the counter; a run does not reach its wrap at 2^32)
ObjectDictionary_get(entries, index, subindex) ==
    IF <<index, subindex>> \notin DOMAIN entries
    THEN [entries |-> entries, found |-> None]
    ELSE LET entry == entries[<<index, subindex>>] IN
         IF entry.dynamic
         THEN [entries |-> [entries EXCEPT ![<<index, subindex>>].counter = @ + 1],
               found |-> Some(<<u32_to_le_bytes(entry.counter), entry.data_type>>)]
         ELSE [entries |-> entries,
               found |-> Some(<<entry.data, entry.data_type>>)]

SdoServer_new(node_id, object_dict) ==
    [node_id |-> node_id, object_dict |-> object_dict,
     request_cob_id |-> 1536 + node_id, response_cob_id |-> 1408 + node_id]

\* Option<CanFrame>; StandardId::new gives None above 0x7FF
create_abort_response(self, index, subindex, abort_code) ==
    IF self.response_cob_id > 2047 THEN None
    ELSE Some(CanFrame(FALSE, self.response_cob_id,
                       << 128, index % 256, (index \div 256) % 256, subindex >>
                       \o u32_to_le_bytes(abort_code)))

\* faulty variant: data of more than four bytes is cut to its first four
create_expedited_response_truncated(self, index, subindex, data) ==
    IF self.response_cob_id > 2047 THEN None
    ELSE LET kept == SubSeq(data, 1, IF Len(data) > 4 THEN 4 ELSE Len(data))
             n == 4 - Len(kept)
             command == BitOr(67, (n * 4) % 256)
         IN  Some(CanFrame(FALSE, self.response_cob_id,
                           << command, index % 256, (index \div 256) % 256, subindex >>
                           \o kept \o [i \in 1..n |-> 0]))

create_expedited_response(self, index, subindex, data) ==
    IF Len(data) > 4
    THEN create_abort_response(self, index, subindex, 84148225)
    ELSE IF self.response_cob_id > 2047 THEN None
    ELSE LET n == 4 - Len(data)
             command == BitOr(67, (n * 4) % 256)
         IN  Some(CanFrame(FALSE, self.response_cob_id,
                           << command, index % 256, (index \div 256) % 256, subindex >>
                           \o data \o [i \in 1..n |-> 0]))

\* the server after the call and the Option<CanFrame> it returns
create_sdo_response(self, index, subindex) ==
    LET got == ObjectDictionary_get(self.object_dict, index, subindex) IN
    [self |-> [self EXCEPT !.object_dict = got.entries],
     response |-> IF is_none(got.found)
                  THEN create_abort_response(self, index, subindex, 100794368)
                  ELSE create_expedited_response(self, index, subindex,
                                                 got.found[1][1])]

\* faulty variant: the command byte of the request is not looked at
handle_frame_any_command(self, frame) ==
    IF frame.ext THEN [self |-> self, response |-> None]
    ELSE IF frame.id # self.request_cob_id THEN [self |-> self, response |-> None]
    ELSE IF Len(frame.data) < 4 THEN [self |-> self, response |-> None]
    ELSE create_sdo_response(self, u16_from_le_bytes(frame.data[2], frame.data[3]),
                             frame.data[4])

\* SdoServer::handle_frame: the server after the call and the Option<CanFrame>
handle_frame(self, frame) ==
    IF frame.ext THEN [self |-> self, response |-> None]
    ELSE IF frame.id # self.request_cob_id THEN [self |-> self, response |-> None]
    ELSE IF Len(frame.data) < 4 THEN [self |-> self, response |-> None]
    ELSE LET command == frame.data[1]
             index == u16_from_le_bytes(frame.data[2], frame.data[3])
             subindex == frame.data[4]
         IN  IF command = 64
             THEN create_sdo_response(self, index, subindex)
             ELSE [self |-> self, response |-> None]

(***************************************************************************)
(* Connection layer errors (canopen-viewer/src/canopen/connect.rs)         *)
(***************************************************************************)
NodeNotConnected(node_id) == [kind |-> "NodeNotConnected", msg |-> <<node_id>>]
RequestFailed(msg) == [kind |-> "RequestFailed", msg |-> msg]

\* impl From<SdoError> for CANopenError
FromSdoError(error) == RequestFailed(SdoErrorToString(error))

(***************************************************************************)
(* Per-node state                                                          *)
(***************************************************************************)
Read(request, response_tx) ==
    [kind |-> "Read", request |-> request, response_tx |-> response_tx]
Write(request, response_tx) ==
    [kind |-> "Write", request |-> request, response_tx |-> response_tx]

\* timestamp: Instant::now() is an Instant that has elapsed 0
PendingSdoRequest(operation) == [operation |-> operation, elapsed |-> 0]

NodeState_new(timeout) ==
    [pending_requests |-> <<>>, active_request |-> None, timeout |-> timeout]

\* faulty variant: the request is put at the front of the queue
queue_request_front(self, request) ==
    [self EXCEPT !.pending_requests = <<request>> \o @]

queue_request(self, request) ==
    [self EXCEPT !.pending_requests = Append(@, request)]

\* VecDeque::pop_front as the pair (front, rest)
pop_front(q) ==
    IF q = <<>> THEN [front |-> None, rest |-> q]
    ELSE [front |-> Some(Head(q)), rest |-> Tail(q)]

\* faulty variant: the next request is started although one is active
start_next_request_always(self) ==
    [self EXCEPT !.active_request = pop_front(self.pending_requests).front,
                 !.pending_requests = pop_front(self.pending_requests).rest]

\* the node state after the call; the call returns its active_request
start_next_request(self) ==
    IF is_none(self.active_request)
    THEN [self EXCEPT !.active_request = pop_front(self.pending_requests).front,
                      !.pending_requests = pop_front(self.pending_requests).rest]
    ELSE self

\* faulty variant: the active request is read but left in its slot
complete_active_request_keep(self) ==
    [self |-> self, taken |-> self.active_request]

\* Option::take: the node state after the call and the value taken
complete_active_request(self) ==
    [self |-> [self EXCEPT !.active_request = None], taken |-> self.active_request]

check_timeout(self) ==
    IF ~is_none(self.active_request) /\ self.active_request[1].elapsed > self.timeout
    THEN complete_active_request(self)
    ELSE [self |-> self, taken |-> None]

\* the response channels held by a node state (dropped with it)
SendersOf(self) ==
    {self.pending_requests[i].operation.response_tx : i \in DOMAIN self.pending_requests}
    \cup {self.active_request[i].operation.response_tx : i \in DOMAIN self.active_request}


(***************************************************************************)
(* State                                                                   *)
(***************************************************************************)
VARIABLES
    nodes,                  \* HashMap<u8, NodeState> of connection_manager_task
    raw_frame_subscribers,  \* Vec<UnboundedSender<CanFrame>>, as channel ids
    alive,                  \* connection_manager_task is running
    since_sleep,            \* time since the loop created its sleep(10 ms)
    handles,                \* node ids a CANopenNodeHandle was returned for
    admitted,               \* the read/write commands taken from command_rx, in
                            \* order (and whether the node was registered then);
                            \* the position of one is its oneshot channel
    rx,                     \* rx[tx]: what the caller's oneshot receiver got
    closed,                 \* oneshot channels whose sender was dropped unsent
    sends,                  \* sends[tx]: times send_sdo_operation ran for tx
    socket,                 \* frames written to the CAN socket, in order
    sub_rx,                 \* sub_rx[s]: frames subscriber s holds unread
    sub_dropped,            \* subscribers whose receiver was dropped
    active_for,             \* active_for[d]: time since d's active request
                            \* became active
    timeout_age,            \* timeout_age[tx]: active_for when tx timed out
    socket_ok,              \* socket.write_frame succeeds at present
    unsent,                 \* operations send_sdo_operation ran for without a
                            \* frame being written
    abandoned,              \* oneshot channels whose receiver was dropped
    codec,                  \* a response frame and the request it is parsed
                            \* against, with the result once it is parsed
    mock,                   \* the mock node: its SdoServer, the frames it has
                            \* handled and the responses it has written that
                            \* the manager's reader has yet to take
    tpdo,                   \* a call of configure_tpdo: its argument, where it
                            \* stands, the channel it awaits and what it returned
    disc,                   \* a call of discover_tpdos_from_device: its locals,
                            \* the reads it has issued and what they returned
    call,                   \* a call of a function of communication.rs: its
                            \* arguments, and the result once it has returned
    tpdo_handles            \* communication_thread_main: tpdo_handles, the
                            \* listener tasks spawned and the updates they sent

manager_vars == << nodes, raw_frame_subscribers, alive, since_sleep, handles, admitted,
           rx, closed, sends, socket, sub_rx, sub_dropped, active_for,
           timeout_age, socket_ok, unsent,
                    abandoned >>

\* what lies outside connection_manager_task
\* the state of communication.rs
app_vars == << disc, call, tpdo_handles >>

AppIdle == disc = None /\ call = None /\ tpdo_handles = None

aux_vars == << codec, mock, tpdo, app_vars >>

vars == << manager_vars, aux_vars >>

Subscribers == 1..MaxSubs
MaxElapsed == default_timeout + 1

(***************************************************************************)
(* Inputs                                                                  *)
(***************************************************************************)
\* reads of 0x1000:00; device 1 is read with two declared types
ReadRequests(d) ==
    {SdoRequest(d, 4096, 0, t) : t \in (IF d = 1 THEN {"UInt16", "UInt32"}
                                        ELSE {"UInt16"})}

\* a write of 0x1234 to 0x1000:00 of device 1
WriteRequests(d) ==
    IF d = 1 THEN {SdoWriteRequest(d, 4096, 0, <<52, 18>>)} ELSE {}

\* 8-byte frame payloads
Expedited1000 == <<75, 0, 16, 0, 52, 18, 0, 0>>    \* 0x4B: 0x1234 at 0x1000:00
Abort1000 == <<128, 0, 16, 0, 0, 0, 2, 6>>         \* 0x80: 0x06020000 at 0x1000:00
DownloadAck1000 == <<96, 0, 16, 0, 0, 0, 0, 0>>    \* 0x60 at 0x1000:00
Expedited2000 == <<67, 0, 32, 1, 100, 0, 0, 0>>    \* 0x43: 100 at 0x2000:01

\* SDO responses of devices 1 and 2, a TPDO broadcast (0x181), the identifiers
\* next to the SDO response range (0x57F, 0x600) and an extended identifier
Frames ==
    {CanFrame(FALSE, 1409, data) :
        data \in {Expedited1000, Abort1000, DownloadAck1000, Expedited2000}}
    \cup {CanFrame(FALSE, 1410, data) : data \in {Expedited1000, Abort1000}}
    \cup {CanFrame(FALSE, id, Expedited1000) : id \in {385, 1407, 1536}}
    \cup {CanFrame(TRUE, 1409, Expedited1000)}

\* the orders in which a HashMap with these keys may be iterated
Orders(keys) ==
    {o \in [1..Cardinality(keys) -> keys] : \A i, j \in DOMAIN o : i # j => o[i] # o[j]}

(***************************************************************************)
(* Steps of connection_manager_task                                        *)
(***************************************************************************)
\* send_sdo_operation: the frames the call writes to the socket; `writable`
\* says whether socket.write_frame returns Ok, and its Err is discarded
send_sdo_operation(writable, operation) ==
    LET frame_result == IF operation.kind = "Read"
                        THEN create_sdo_request_frame(operation.request)
                        ELSE create_sdo_write_frame(operation.request)
    IN  IF is_ok(frame_result) /\ writable THEN <<frame_result.val>> ELSE <<>>

\* faulty variant: requests are started at admission only, never by the loop's tail
AdvanceNodes_never(ns, order) == [nodes |-> ns, sent |-> <<>>]

\* faulty variant: the scan stops after the first node state it visits
AdvanceNodes_first(ns, order) ==
    IF order = <<>> THEN [nodes |-> ns, sent |-> <<>>]
    ELSE LET d == Head(order)
             started == start_next_request(ns[d])
             fresh == is_none(ns[d].active_request) /\ ~is_none(started.active_request)
         IN  [nodes |-> IF fresh THEN [ns EXCEPT ![d] = started] ELSE ns,
              sent |-> IF fresh THEN <<started.active_request[1].operation>> ELSE <<>>]

\* faulty variant: a queued request whose caller is gone is discarded, not started
RECURSIVE AdvanceNodes_cancels(_, _)
AdvanceNodes_cancels(ns, order) ==
    IF order = <<>> THEN [nodes |-> ns, sent |-> <<>>]
    ELSE LET d == Head(order)
             gone == /\ is_none(ns[d].active_request)
                     /\ ns[d].pending_requests # <<>>
                     /\ Head(ns[d].pending_requests).operation.response_tx \in abandoned
             started == start_next_request(ns[d])
             fresh == is_none(ns[d].active_request) /\ ~is_none(started.active_request)
             rest == AdvanceNodes_cancels(
                        IF gone THEN [ns EXCEPT ![d].pending_requests = Tail(@)]
                        ELSE IF fresh THEN [ns EXCEPT ![d] = started] ELSE ns,
                        Tail(order))
         IN  [nodes |-> rest.nodes,
              sent |-> (IF fresh /\ ~gone
                        THEN <<started.active_request[1].operation>> ELSE <<>>)
                       \o rest.sent]

\* the loop's tail "for node_state in nodes.values_mut()", visiting in `order`:
\* the map afterwards and the operations handed to send_sdo_operation
RECURSIVE AdvanceNodes(_, _)
AdvanceNodes(ns, order) ==
    IF order = <<>> THEN [nodes |-> ns, sent |-> <<>>]
    ELSE LET d == Head(order)
             started == start_next_request(ns[d])
             fresh == is_none(ns[d].active_request) /\ ~is_none(started.active_request)
             rest == AdvanceNodes(IF fresh THEN [ns EXCEPT ![d] = started] ELSE ns,
                                  Tail(order))
         IN  [nodes |-> rest.nodes,
              sent |-> (IF fresh THEN <<started.active_request[1].operation>> ELSE <<>>)
                       \o rest.sent]

\* faulty variant: the node id is taken from the identifier one too high
handle_can_frame_offset(ns, frame) ==
    IF frame.ext THEN [nodes |-> ns, results |-> <<>>]
    ELSE IF frame.id >= 1408 /\ frame.id <= 1535
    THEN LET node_id == frame.id - 1407 IN
         IF node_id \in DOMAIN ns /\ ~is_none(ns[node_id].active_request)
         THEN LET op == ns[node_id].active_request[1].operation
                  response == IF op.kind = "Read"
                              THEN parse_sdo_response(frame, op.request)
                              ELSE parse_sdo_write_response(frame, op.request)
              IN  [nodes |-> [ns EXCEPT ![node_id] = complete_active_request(@).self],
                   results |-> << <<op.response_tx, response>> >>]
         ELSE [nodes |-> ns, results |-> <<>>]
    ELSE [nodes |-> ns, results |-> <<>>]

\* faulty variant: an extended identifier is read like a standard one
handle_can_frame_extended(ns, frame) ==
    IF frame.id >= 1408 /\ frame.id <= 1535
    THEN LET node_id == frame.id - 1408 IN
         IF node_id \in DOMAIN ns /\ ~is_none(ns[node_id].active_request)
         THEN LET op == ns[node_id].active_request[1].operation
                  response == IF op.kind = "Read"
                              THEN parse_sdo_response(frame, op.request)
                              ELSE parse_sdo_write_response(frame, op.request)
              IN  [nodes |-> [ns EXCEPT ![node_id] = complete_active_request(@).self],
                   results |-> << <<op.response_tx, response>> >>]
         ELSE [nodes |-> ns, results |-> <<>>]
    ELSE [nodes |-> ns, results |-> <<>>]

\* faulty variant: a response clears the active slot of every node
handle_can_frame_all(ns, frame) ==
    IF frame.ext THEN [nodes |-> ns, results |-> <<>>]
    ELSE IF frame.id >= 1408 /\ frame.id <= 1535
    THEN LET node_id == frame.id - 1408 IN
         IF node_id \in DOMAIN ns /\ ~is_none(ns[node_id].active_request)
         THEN LET op == ns[node_id].active_request[1].operation
                  response == IF op.kind = "Read"
                              THEN parse_sdo_response(frame, op.request)
                              ELSE parse_sdo_write_response(frame, op.request)
              IN  [nodes |-> [d \in DOMAIN ns |-> complete_active_request(ns[d]).self],
                   results |-> << <<op.response_tx, response>> >>]
         ELSE [nodes |-> ns, results |-> <<>>]
    ELSE [nodes |-> ns, results |-> <<>>]

\* faulty variant: a write is acknowledged whatever frame answers it
handle_can_frame_write_ok(ns, frame) ==
    IF frame.ext THEN [nodes |-> ns, results |-> <<>>]
    ELSE IF frame.id >= 1408 /\ frame.id <= 1535
    THEN LET node_id == frame.id - 1408 IN
         IF node_id \in DOMAIN ns
         THEN LET done == complete_active_request(ns[node_id]) IN
              IF ~is_none(done.taken)
              THEN LET op == done.taken[1].operation
                       response == IF op.kind = "Read"
                                   THEN parse_sdo_response(frame, op.request)
                                   ELSE Ok(<<>>)
                   IN  [nodes |-> [ns EXCEPT ![node_id] = done.self],
                        results |-> << <<op.response_tx, response>> >>]
              ELSE [nodes |-> ns, results |-> <<>>]
         ELSE [nodes |-> ns, results |-> <<>>]
    ELSE [nodes |-> ns, results |-> <<>>]

\* handle_can_frame: the map afterwards and the (channel, result) pairs sent
handle_can_frame(ns, frame) ==
    IF frame.ext THEN [nodes |-> ns, results |-> <<>>]
    ELSE IF frame.id >= 1408 /\ frame.id <= 1535
    THEN LET node_id == frame.id - 1408 IN
         IF node_id \in DOMAIN ns
         THEN LET done == complete_active_request(ns[node_id]) IN
              IF ~is_none(done.taken)
              THEN LET op == done.taken[1].operation
                       response == IF op.kind = "Read"
                                   THEN parse_sdo_response(frame, op.request)
                                   ELSE parse_sdo_write_response(frame, op.request)
                   IN  [nodes |-> [ns EXCEPT ![node_id] = done.self],
                        results |-> << <<op.response_tx, response>> >>]
              ELSE [nodes |-> ns, results |-> <<>>]
         ELSE [nodes |-> ns, results |-> <<>>]
    ELSE [nodes |-> ns, results |-> <<>>]

\* check_timeouts, visiting in `order`
RECURSIVE check_timeouts(_, _)
check_timeouts(ns, order) ==
    IF order = <<>> THEN [nodes |-> ns, results |-> <<>>]
    ELSE LET d == Head(order)
             r == check_timeout(ns[d])
             rest == check_timeouts([ns EXCEPT ![d] = r.self], Tail(order))
         IN  [nodes |-> rest.nodes,
              results |-> (IF is_none(r.taken) THEN <<>>
                           ELSE << <<r.taken[1].operation.response_tx, Err(Timeout)>> >>)
                          \o rest.results]

(***************************************************************************)
(* Effects on the channels and the socket                                  *)
(***************************************************************************)
\* response_tx.send(result) for each (channel, result) pair; a send to a
\* channel whose receiver is gone returns Err, which is discarded
RECURSIVE Deliver(_, _)
Deliver(chan, results) ==
    IF results = <<>> THEN chan
    ELSE Deliver(IF Head(results)[1] \in abandoned THEN chan
                 ELSE [chan EXCEPT ![Head(results)[1]] = Append(@, Head(results)[2])],
                 Tail(results))

RECURSIVE FramesOf(_, _)
FramesOf(writable, ops) ==
    IF ops = <<>> THEN <<>>
    ELSE send_sdo_operation(writable, Head(ops)) \o FramesOf(writable, Tail(ops))

Count(ops, tx) == Cardinality({i \in DOMAIN ops : ops[i].response_tx = tx})

\* the channel of d's active request, 0 if there is none
ActiveTx(ns, d) ==
    IF d \in DOMAIN ns /\ ~is_none(ns[d].active_request)
    THEN ns[d].active_request[1].operation.response_tx ELSE 0

Outcome(ns, results, sent) == [nodes |-> ns, results |-> results, sent |-> sent]

\* One iteration of the loop: `after` is the outcome of the selected branch
\* (the map, the results sent, the operations the branch itself sent), then the
\* scan that starts pending requests.  `chan` is rx with the channel of a
\* command of this iteration added.
Iterate(after, order, chan) ==
    LET scan == AdvanceNodes(after.nodes, order)
        sent == after.sent \o scan.sent
    IN  /\ nodes' = scan.nodes
        /\ rx' = Deliver(chan, after.results)
        /\ sends' = [tx \in DOMAIN chan |->
                       (IF tx \in DOMAIN sends THEN sends[tx] ELSE 0) + Count(sent, tx)]
        /\ socket' = socket \o FramesOf(socket_ok, sent)
        /\ unsent' = unsent \cup {sent[i].response_tx : i \in
                         {j \in DOMAIN sent : send_sdo_operation(socket_ok, sent[j]) = <<>>}}
        /\ socket_ok' = socket_ok
        /\ abandoned' = abandoned
        /\ active_for' = [d \in DOMAIN active_for |->
                            IF ActiveTx(scan.nodes, d) # ActiveTx(nodes, d)
                            THEN 0 ELSE active_for[d]]
        /\ since_sleep' = 0


(***************************************************************************)
(* Initial state: connection_manager_task just spawned                     *)
(***************************************************************************)
NoNodes == [d \in {} |-> NodeState_new(default_timeout)]

ManagerInit ==
    /\ nodes = NoNodes
    /\ raw_frame_subscribers = <<>>
    /\ alive = TRUE
    /\ since_sleep = 0
    /\ handles = {}
    /\ admitted = <<>>
    /\ rx = <<>>
    /\ closed = {}
    /\ sends = <<>>
    /\ socket = <<>>
    /\ sub_rx = [s \in Subscribers |-> <<>>]
    /\ sub_dropped = {}
    /\ active_for = [d \in NodeIds \cup RegisterIds |-> 0]
    /\ timeout_age = <<>>
    /\ socket_ok = TRUE
    /\ unsent = {}
    /\ abandoned = {}

Init == ManagerInit /\ codec = None /\ mock = None /\ tpdo = None /\ AppIdle

(***************************************************************************)
(* Commands                                                                *)
(***************************************************************************)
\* faulty variant: an entry that exists is kept (entry().or_insert)
insert_keep(ns, node_id) ==
    IF node_id \in DOMAIN ns THEN ns
    ELSE (node_id :> NodeState_new(default_timeout)) @@ ns

\* nodes.insert(node_id, NodeState::new(node_id, default_timeout))
insert(ns, node_id) == (node_id :> NodeState_new(default_timeout)) @@ ns

\* nodes.remove(&node_id)
remove(ns, node_id) == [d \in DOMAIN ns \ {node_id} |-> ns[d]]

\* the senders dropped with the node state that insert / remove replaces
Dropped(node_id) ==
    IF node_id \in DOMAIN nodes THEN SendersOf(nodes[node_id]) ELSE {}

\* CANopenConnection::add_node and the AddNode arm
AddNode(node_id) ==
    /\ alive
    /\ \E order \in Orders(DOMAIN nodes \cup {node_id}) :
          Iterate(Outcome(insert(nodes, node_id), <<>>, <<>>), order, rx)
    /\ closed' = closed \cup Dropped(node_id)
    /\ handles' = handles \cup {node_id}
    /\ UNCHANGED << raw_frame_subscribers, alive, admitted, sub_rx, sub_dropped,
                    timeout_age, aux_vars >>

\* the RemoveNode arm
RemoveNode(node_id) ==
    /\ alive
    /\ \E order \in Orders(DOMAIN nodes \ {node_id}) :
          Iterate(Outcome(remove(nodes, node_id), <<>>, <<>>), order, rx)
    /\ closed' = closed \cup Dropped(node_id)
    /\ UNCHANGED << raw_frame_subscribers, alive, handles, admitted, sub_rx,
                    sub_dropped, timeout_age, aux_vars >>

\* faulty variant: a request for an unknown node creates its state and is queued
Submit_creates(ns, node_id, operation) ==
    LET known == IF node_id \in DOMAIN ns THEN ns ELSE insert(ns, node_id)
        queued == queue_request(known[node_id], PendingSdoRequest(operation))
        started == start_next_request(queued)
    IN  Outcome([known EXCEPT ![node_id] = started], <<>>,
                IF is_none(started.active_request) THEN <<>>
                ELSE <<started.active_request[1].operation>>)

\* the SdoRequest / SdoWriteRequest arm for an operation whose result goes
\* to operation.response_tx
Submit(ns, node_id, operation) ==
    IF node_id \in DOMAIN ns
    THEN LET queued == queue_request(ns[node_id], PendingSdoRequest(operation))
             started == start_next_request(queued)
         IN  Outcome([ns EXCEPT ![node_id] = started], <<>>,
                     IF is_none(started.active_request) THEN <<>>
                     ELSE <<started.active_request[1].operation>>)
    ELSE Outcome(ns,
                 << <<operation.response_tx,
                      Err(InvalidResponse(<<"Node not connected", node_id>>))>> >>,
                 <<>>)

\* a command sent through a handle and taken from command_rx
Admit(node_id, kind, request, operation) ==
    /\ alive
    /\ node_id \in handles
    /\ admitted' = Append(admitted, [node_id |-> node_id, kind |-> kind,
                                     request |-> request,
                                     registered |-> node_id \in DOMAIN nodes])
    /\ timeout_age' = Append(timeout_age, -1)
    /\ \E order \in Orders(DOMAIN nodes) :
          Iterate(Submit(nodes, node_id, operation), order, Append(rx, <<>>))
    /\ UNCHANGED << raw_frame_subscribers, alive, handles, closed, sub_rx,
                    sub_dropped >>

\* a command of a caller that is not modelled as a process of its own
Command(node_id, kind, request, operation) ==
    Admit(node_id, kind, request, operation) /\ UNCHANGED aux_vars

\* CANopenNodeHandle::sdo_read and the SdoRequest arm
SdoRequestCmd(node_id, request) ==
    Command(node_id, "Read", request, Read(request, Len(admitted) + 1))

\* CANopenNodeHandle::sdo_write and the SdoWriteRequest arm
SdoWriteRequestCmd(node_id, request) ==
    Command(node_id, "Write", request, Write(request, Len(admitted) + 1))

\* the subscriber channels created so far
Subscribed ==
    {raw_frame_subscribers[i] : i \in DOMAIN raw_frame_subscribers} \cup sub_dropped

\* CANopenConnection::subscribe_raw_frames and the SubscribeRawFrames arm
SubscribeRawFrames ==
    /\ alive
    /\ Cardinality(Subscribed) < MaxSubs
    /\ raw_frame_subscribers' =
          Append(raw_frame_subscribers, Cardinality(Subscribed) + 1)
    /\ \E order \in Orders(DOMAIN nodes) :
          Iterate(Outcome(nodes, <<>>, <<>>), order, rx)
    /\ UNCHANGED << alive, handles, admitted, closed, sub_rx, sub_dropped,
                    timeout_age, aux_vars >>

(***************************************************************************)
(* Frames and the timeout tick                                             *)
(***************************************************************************)
Live(s) == s \notin sub_dropped

\* faulty variant: only the first registered subscriber is sent the frame
Broadcast_first(frame) ==
    /\ raw_frame_subscribers' = SelectSeq(raw_frame_subscribers, Live)
    /\ sub_rx' = [s \in Subscribers |->
                    IF raw_frame_subscribers # <<>> /\ s = raw_frame_subscribers[1]
                       /\ Live(s)
                    THEN Append(sub_rx[s], frame) ELSE sub_rx[s]]

\* faulty variant: the fan-out stops at the first subscriber whose send fails
Broadcast_stops(frame) ==
    LET dead == {i \in DOMAIN raw_frame_subscribers : ~Live(raw_frame_subscribers[i])}
        reached == {raw_frame_subscribers[i] : i \in
                      {j \in DOMAIN raw_frame_subscribers : \A k \in dead : j < k}}
    IN  /\ raw_frame_subscribers' = SelectSeq(raw_frame_subscribers, Live)
        /\ sub_rx' = [s \in Subscribers |->
                        IF s \in reached THEN Append(sub_rx[s], frame) ELSE sub_rx[s]]

\* raw_frame_subscribers.retain(|subscriber| subscriber.send(frame).is_ok())
Broadcast(frame) ==
    /\ raw_frame_subscribers' = SelectSeq(raw_frame_subscribers, Live)
    /\ sub_rx' = [s \in Subscribers |->
                    IF s \in Subscribed /\ Live(s)
                    THEN Append(sub_rx[s], frame) ELSE sub_rx[s]]

\* the frame arm: a frame the reader task took from the socket
TakeFrame(frame) ==
    /\ alive
    /\ Broadcast(frame)
    /\ LET handled == handle_can_frame(nodes, frame)
           panicked == \E i \in DOMAIN handled.results :
                          is_panic(handled.results[i][2])
       IN  IF panicked
           THEN \* the task unwinds: its state, and every sender in it, is dropped
                /\ alive' = FALSE
                /\ nodes' = NoNodes
                /\ closed' = closed
                              \cup UNION {SendersOf(nodes[d]) : d \in DOMAIN nodes}
                /\ active_for' = [d \in DOMAIN active_for |-> 0]
                /\ UNCHANGED << since_sleep, rx, sends, socket, socket_ok, unsent,
                    abandoned >>
           ELSE /\ \E order \in Orders(DOMAIN nodes) :
                      Iterate(Outcome(handled.nodes, handled.results, <<>>), order, rx)
                /\ UNCHANGED << alive, closed >>
    /\ UNCHANGED << handles, admitted, sub_dropped, timeout_age >>

\* the frame arm for a frame of a sender that is not modelled
FrameArm(frame) == TakeFrame(frame) /\ UNCHANGED aux_vars

\* the frame arm while no subscriber holds more than MaxSubQueue unread frames
FrameReceived(frame) ==
    /\ \A s \in Subscribed : Live(s) => Len(sub_rx[s]) < MaxSubQueue
    /\ FrameArm(frame)

\* the sleep arm: 10 ms have passed since the loop last came round
Tick ==
    /\ alive
    /\ since_sleep >= TickInterval
    /\ \E order \in Orders(DOMAIN nodes) :
          LET checked == check_timeouts(nodes, order)
              timed_out == {checked.results[i][1] : i \in DOMAIN checked.results}
          IN  /\ Iterate(Outcome(checked.nodes, checked.results, <<>>), order, rx)
              /\ timeout_age' = [tx \in DOMAIN timeout_age |->
                                   IF tx \in timed_out
                                   THEN active_for[admitted[tx].node_id]
                                   ELSE timeout_age[tx]]
    /\ UNCHANGED << raw_frame_subscribers, alive, handles, admitted, closed,
                    sub_rx, sub_dropped, aux_vars >>

(***************************************************************************)
(* Environment: time, and the tasks reading raw frames                     *)
(***************************************************************************)
\* Instant::elapsed one time unit later
Older(request) ==
    [request EXCEPT !.elapsed = IF @ < MaxElapsed THEN @ + 1 ELSE @]

TimePasses ==
    /\ nodes' = [d \in DOMAIN nodes |->
                   [nodes[d] EXCEPT
                      !.pending_requests = [i \in DOMAIN @ |-> Older(@[i])],
                      !.active_request = [i \in DOMAIN @ |-> Older(@[i])]]]
    /\ since_sleep' = IF since_sleep < TickInterval THEN since_sleep + 1
                      ELSE since_sleep
    /\ active_for' = [d \in DOMAIN active_for |->
                        IF ActiveTx(nodes, d) # 0 /\ active_for[d] < MaxElapsed
                        THEN active_for[d] + 1 ELSE active_for[d]]
    /\ UNCHANGED << raw_frame_subscribers, alive, handles, admitted, rx, closed,
                    sends, socket, sub_rx, sub_dropped, timeout_age, socket_ok,
                    unsent,
                    abandoned, aux_vars >>

\* a subscriber task takes the next frame from its receiver
SubscriberRecv(s) ==
    /\ s \in Subscribed /\ Live(s)
    /\ sub_rx[s] # <<>>
    /\ sub_rx' = [sub_rx EXCEPT ![s] = Tail(@)]
    /\ UNCHANGED << nodes, raw_frame_subscribers, alive, since_sleep, handles,
                    admitted, rx, closed, sends, socket, sub_dropped, active_for,
                    timeout_age, socket_ok, unsent,
                    abandoned, aux_vars >>

\* a subscriber task ends and its receiver is dropped
SubscriberDrop(s) ==
    /\ s \in Subscribed /\ Live(s)
    /\ sub_dropped' = sub_dropped \cup {s}
    /\ sub_rx' = [sub_rx EXCEPT ![s] = <<>>]
    /\ UNCHANGED << nodes, raw_frame_subscribers, alive, since_sleep, handles,
                    admitted, rx, closed, sends, socket, active_for, timeout_age,
                    socket_ok, unsent,
                    abandoned, aux_vars >>

\* the task awaiting sdo_read / sdo_write on channel tx is aborted: the future,
\* and with it the oneshot receiver, is dropped
CallerAborts(tx) ==
    /\ tx \in DOMAIN admitted
    /\ rx[tx] = <<>> /\ tx \notin closed /\ tx \notin abandoned
    /\ abandoned' = abandoned \cup {tx}
    /\ UNCHANGED << nodes, raw_frame_subscribers, alive, since_sleep, handles,
                    admitted, rx, closed, sends, socket, sub_rx, sub_dropped,
                    active_for, timeout_age, socket_ok, unsent, aux_vars >>

\* socket.write_frame starts or stops returning Err (bus off, buffer full)
SocketFault ==
    /\ socket_ok' = ~socket_ok
    /\ UNCHANGED << nodes, raw_frame_subscribers, alive, since_sleep, handles,
                    admitted, rx, closed, sends, socket, sub_rx, sub_dropped,
                    active_for, timeout_age, unsent,
                    abandoned, aux_vars >>

(***************************************************************************)
(* Specifications                                                          *)
(***************************************************************************)
\* two devices, registered and removed at will, and no raw-frame subscriber
Next ==
    \/ \E d \in NodeIds : AddNode(d)
    \/ \E d \in NodeIds : RemoveNode(d)
    \/ \E d \in NodeIds : \E r \in ReadRequests(d) :
          Len(admitted) < MaxOps /\ SdoRequestCmd(d, r)
    \/ \E d \in NodeIds : \E r \in WriteRequests(d) :
          Len(admitted) < MaxOps /\ SdoWriteRequestCmd(d, r)
    \/ \E f \in Frames : FrameReceived(f)
    \/ Tick
    \/ TimePasses

Spec == Init /\ [][Next]_vars

\* one device with a deeper queue
QueueFrames == {CanFrame(FALSE, 1409, data) : data \in {Expedited1000, DownloadAck1000}}

QueueNext ==
    \/ AddNode(1)
    \/ Len(admitted) < MaxQueueOps /\ SdoRequestCmd(1, SdoRequest(1, 4096, 0, "UInt16"))
    \/ \E r \in WriteRequests(1) :
          Len(admitted) < MaxQueueOps /\ SdoWriteRequestCmd(1, r)
    \/ \E f \in QueueFrames : FrameReceived(f)
    \/ Tick
    \/ TimePasses

QueueSpec == Init /\ [][QueueNext]_vars

\* raw-frame subscribers beside the devices
FanoutNext ==
    \/ \E d \in NodeIds : AddNode(d)
    \/ Len(admitted) < MaxFanoutOps /\ SdoRequestCmd(1, SdoRequest(1, 4096, 0, "UInt16"))
    \/ SubscribeRawFrames
    \/ \E f \in Frames : FrameReceived(f)
    \/ Tick
    \/ TimePasses
    \/ \E s \in Subscribers : SubscriberRecv(s)
    \/ \E s \in Subscribers : SubscriberDrop(s)

FanoutSpec == Init /\ [][FanoutNext]_vars

\* subscribers that keep what they receive: an SDO response of device 1 and a
\* TPDO broadcast, up to MaxOrderQueue frames per subscriber
OrderFrames == {CanFrame(FALSE, 1409, Expedited1000), CanFrame(FALSE, 385, Expedited1000)}

OrderNext ==
    \/ AddNode(1)
    \/ Len(admitted) < MaxFanoutOps /\ SdoRequestCmd(1, SdoRequest(1, 4096, 0, "UInt16"))
    \/ SubscribeRawFrames
    \/ \E f \in OrderFrames :
          /\ \A s \in Subscribed : Live(s) => Len(sub_rx[s]) < MaxOrderQueue
          /\ FrameArm(f)
    \/ Tick
    \/ TimePasses
    \/ \E s \in Subscribers : SubscriberDrop(s)

OrderSpec == Init /\ [][OrderNext]_vars


(***************************************************************************)
(* Properties                                                              *)
(***************************************************************************)
Ops == DOMAIN admitted

\* the operations of device d, in the order they were admitted
OpsOf(d) == {tx \in Ops : admitted[tx].node_id = d /\ admitted[tx].registered}

Resolved(tx) == rx[tx] # <<>>

\* transmitted and still awaiting its response or timeout
InFlight(tx) == sends[tx] > 0 /\ ~Resolved(tx) /\ tx \notin closed

\* what CANopenNodeHandle::sdo_read / sdo_write return for a received result
sdo_result(received) ==
    IF is_ok(received) THEN received ELSE Err(FromSdoError(received.err))

\* C1: no device has two operations transmitted and awaiting their response
\* or timeout at the same time.
C1_OneActivePerDevice ==
    \A d \in NodeIds : Cardinality({tx \in OpsOf(d) : InFlight(tx)}) <= 1

\* a device with a transmitted active operation and another one queued behind it
C1_Witness ==
    \E d \in DOMAIN nodes :
        /\ ActiveTx(nodes, d) # 0
        /\ InFlight(ActiveTx(nodes, d))
        /\ nodes[d].pending_requests # <<>>

\* C2: on one device, an operation is first transmitted only when every
\* operation admitted before it (and not dropped) has been transmitted, and gets
\* its result only when every such operation has got its own.
C2_Fifo ==
    [][ \A y \in DOMAIN admitted' : \A x \in 1..(y - 1) :
           (admitted'[x].node_id = admitted'[y].node_id /\ x \notin closed')
           => /\ (sends'[y] > 0 /\ (y \notin DOMAIN sends \/ sends[y] = 0))
                 => sends[x] > 0
              /\ (rx'[y] # <<>> /\ (y \notin DOMAIN rx \/ rx[y] = <<>>))
                 => rx[x] # <<>> ]_vars

\* a read and a write were queued together behind a third operation, and all
\* three have been transmitted and the first two resolved
C2_Witness ==
    /\ Len(admitted) = 3
    /\ closed = {}
    /\ {admitted[2].kind, admitted[3].kind} = {"Read", "Write"}
    /\ Resolved(1) /\ Resolved(2) /\ sends[3] > 0
    /\ timeout_age[1] > default_timeout

\* C3: every operation gets at most one result, and the result is one made
\* for it: a read gets a response for its own node and object or an error, a
\* write gets the unit value or an error.
C3_AtMostOneResult ==
    \A tx \in Ops :
        /\ Len(rx[tx]) <= 1
        /\ \A i \in DOMAIN rx[tx] :
              is_ok(rx[tx][i]) =>
                 IF admitted[tx].kind = "Read"
                 THEN /\ rx[tx][i].val.node_id = admitted[tx].node_id
                      /\ rx[tx][i].val.index = admitted[tx].request.index
                      /\ rx[tx][i].val.subindex = admitted[tx].request.subindex
                      /\ rx[tx][i].val.data.type = admitted[tx].request.expected_type
                 ELSE rx[tx][i].val = <<>>

\* one operation was resolved by its response and another by the timeout
C3_Witness ==
    \E x, y \in Ops :
        /\ rx[x] # <<>> /\ is_ok(rx[x][1])
        /\ rx[y] = <<Err(Timeout)>>


\* Time passes, and the sleep arm is taken whenever it stays ready: the
\* assumption that the timeout-check tick keeps firing.
LiveSpec == Spec /\ WF_vars(TimePasses) /\ []<><<Tick>>_vars

\* the head of d's queue when its active request times out in this step
TimedOutWithQueue(d) ==
    /\ d \in DOMAIN nodes /\ d \in DOMAIN nodes'
    /\ ActiveTx(nodes, d) # 0
    /\ rx'[ActiveTx(nodes, d)] = <<Err(Timeout)>>
    /\ rx[ActiveTx(nodes, d)] = <<>>
    /\ nodes[d].pending_requests # <<>>

\* C4: every operation admitted for a registered device is eventually resolved
\* unless its device is removed or registered anew, and the step in which an
\* active operation times out makes the head of the queue the active operation
\* and hands it to send_sdo_operation.
C4_Liveness ==
    /\ \A tx \in 1..MaxOps :
          (IF tx \in Ops THEN admitted[tx].registered ELSE FALSE)
             ~> (IF tx \in Ops THEN Resolved(tx) \/ tx \in closed ELSE FALSE)
    /\ [][ \A d \in NodeIds :
              TimedOutWithQueue(d) =>
                 LET next == Head(nodes[d].pending_requests).operation.response_tx
                 IN  /\ ActiveTx(nodes', d) = next
                     /\ sends'[next] = sends[next] + 1 ]_vars

\* an operation was dispatched after the one before it on its device timed
\* out, and has timed out itself
C4_Witness ==
    \E x, y \in Ops :
        /\ x < y /\ admitted[x].node_id = admitted[y].node_id
        /\ admitted[x].registered /\ admitted[y].registered
        /\ rx[x] = <<Err(Timeout)>> /\ rx[y] = <<Err(Timeout)>>
        /\ sends[y] > 0


\* C5: an operation resolved with Timeout has been the active operation of
\* its device for longer than the device timeout.
C5_TimeoutCountsActiveTime ==
    \A tx \in Ops : timeout_age[tx] # -1 => timeout_age[tx] > default_timeout

\* the command taken in this step, if it is for a node with no state
Rejected(tx) == tx \notin DOMAIN admitted /\ ~admitted'[tx].registered

\* C6: a read or write for a device with no registered session gets an error
\* at once; nothing is queued, no session is created or changed, no frame is
\* written and no other waiter is touched.
C6_UnregisteredRejected ==
    [][ \A tx \in DOMAIN admitted' :
           Rejected(tx) =>
              /\ nodes' = nodes
              /\ socket' = socket
              /\ sends'[tx] = 0
              /\ \A o \in DOMAIN sends : sends'[o] = sends[o]
              /\ Len(rx'[tx]) = 1 /\ is_err(rx'[tx][1])
              /\ \A o \in DOMAIN rx : rx'[o] = rx[o]
              /\ closed' = closed ]_vars

\* an operation on a removed device was rejected while the other device had an
\* operation in flight
C6_Witness ==
    \E tx \in Ops :
        /\ ~admitted[tx].registered
        /\ Len(rx[tx]) = 1 /\ is_err(rx[tx][1])
        /\ sends[tx] = 0
        /\ \E o \in Ops : admitted[o].node_id # admitted[tx].node_id /\ InFlight(o)

\* C7: the caller of an operation on an unregistered device gets an error of
\* the kind NotConnected.
C7_NotConnectedKind ==
    \A tx \in Ops :
        (~admitted[tx].registered /\ Resolved(tx))
        => /\ is_err(sdo_result(rx[tx][1]))
           /\ sdo_result(rx[tx][1]).err.kind = "NodeNotConnected"

\* C8: the caller gets an error of the kind the codec or the manager made.
C8_ErrorKindRelayed ==
    \A tx \in Ops : \A i \in DOMAIN rx[tx] :
        (is_err(rx[tx][i]) /\ admitted[tx].registered)
        => sdo_result(rx[tx][i]).err.kind = rx[tx][i].err.kind

\* the codec's result for frame f against the request admitted on channel tx
Decoded(f, tx) ==
    IF admitted[tx].kind = "Read"
    THEN parse_sdo_response(f, admitted[tx].request)
    ELSE parse_sdo_write_response(f, admitted[tx].request)

\* C9: a standard frame 0x580 + d for a registered device d with an active
\* operation gives that operation the codec's result against its own request,
\* gives no other operation a result, leaves d's queued operations as they were
\* and in order (the first of them becoming active) and leaves every other
\* session unchanged.
C9_FrameCompletesActive ==
    [][ \A f \in Frames : \A d \in NodeIds :
           (/\ ~f.ext /\ f.id = 1408 + d
            /\ d \in DOMAIN nodes /\ ActiveTx(nodes, d) # 0
            /\ FrameReceived(f))
           => /\ rx'[ActiveTx(nodes, d)] = <<Decoded(f, ActiveTx(nodes, d))>>
              /\ \A o \in Ops \ {ActiveTx(nodes, d)} : rx'[o] = rx[o]
              /\ closed' = closed
              /\ nodes'[d].active_request \o nodes'[d].pending_requests
                    = nodes[d].pending_requests
              /\ \A e \in DOMAIN nodes \ {d} : nodes'[e] = nodes[e] ]_vars

\* a read was completed with a decoded value while another operation was queued
\* behind it, which has since been sent and is still waiting
C9_Witness ==
    \E x, y \in Ops :
        /\ x < y /\ admitted[x].node_id = admitted[y].node_id
        /\ admitted[x].registered /\ admitted[y].registered
        /\ Len(rx[x]) = 1 /\ is_ok(rx[x][1]) /\ admitted[x].kind = "Read"
        /\ InFlight(y) /\ sends[y] >= 1

\* no pending operation is matched by frame f
Unmatched(f) ==
    \/ f.ext
    \/ f.id < 1408 \/ f.id > 1535
    \/ (f.id - 1408) \notin DOMAIN nodes
    \/ ActiveTx(nodes, f.id - 1408) = 0

\* C10: a frame that matches no pending operation changes no session and
\* resolves no waiter, and every subscriber with a receiver gets it.
C10_UnmatchedFrame ==
    [][ \A f \in Frames :
           (Unmatched(f) /\ FrameReceived(f))
           => /\ nodes' = nodes
              /\ rx' = rx
              /\ closed' = closed
              /\ \A i \in DOMAIN raw_frame_subscribers :
                    Live(raw_frame_subscribers[i])
                    => sub_rx'[raw_frame_subscribers[i]]
                          = Append(sub_rx[raw_frame_subscribers[i]], f) ]_vars

\* two subscribers hold a frame with an extended identifier in the SDO response
\* range of device 1 while the read of device 1 is still active
C10_Witness ==
    /\ Len(raw_frame_subscribers) = 2
    /\ \A s \in Subscribers :
          Live(s) /\ sub_rx[s] = <<CanFrame(TRUE, 1409, Expedited1000)>>
    /\ ActiveTx(nodes, 1) # 0
    /\ InFlight(ActiveTx(nodes, 1))

\* t is the tail of s from some position on
IsSuffix(t, s) ==
    /\ Len(t) <= Len(s)
    /\ \A i \in DOMAIN t : t[i] = s[Len(s) - Len(t) + i]

\* the subscribers registered and listening, in the order they subscribed
LiveSubscribers ==
    {raw_frame_subscribers[i] : i \in DOMAIN raw_frame_subscribers} \ sub_dropped

\* C11: each frame the manager takes is appended, as it is, to what every
\* listening subscriber has received, and nothing else is ever appended; so a
\* subscriber holds the frames taken since it subscribed in the order they
\* were taken, and of two listening subscribers the later one holds exactly
\* the frames the earlier one got since the later one subscribed.
C11_FanoutOrder ==
    /\ [](\A s, t \in LiveSubscribers : s < t => IsSuffix(sub_rx[t], sub_rx[s]))
    /\ [][ /\ \A f \in OrderFrames :
                FrameArm(f) =>
                   \A s \in Subscribers :
                      sub_rx'[s] = IF s \in LiveSubscribers
                                   THEN Append(sub_rx[s], f) ELSE sub_rx[s]
           /\ (\A f \in OrderFrames : ~FrameArm(f)) =>
                 \A s \in Subscribers :
                    sub_rx'[s] = sub_rx[s] \/ sub_rx'[s] = <<>> ]_vars

\* the first subscriber holds the SDO response that completed the read and then
\* the TPDO frame; the second, subscribed in between, holds the TPDO frame only
C11_Witness ==
    /\ LiveSubscribers = {1, 2}
    /\ sub_rx[1] = <<CanFrame(FALSE, 1409, Expedited1000),
                     CanFrame(FALSE, 385, Expedited1000)>>
    /\ sub_rx[2] = <<CanFrame(FALSE, 385, Expedited1000)>>
    /\ Ops # {} /\ Len(rx[1]) = 1 /\ is_ok(rx[1][1])

\* C12: a frame step takes the subscribers whose receiver is gone out of the
\* registry, keeping the others in their order; every remaining subscriber gets
\* the frame, and the frame still completes the active operation it answers.
\* No other step takes a subscriber out.
C12_DroppedSubscriberRemoved ==
    [][ /\ \A f \in Frames :
             FrameReceived(f) =>
                /\ raw_frame_subscribers' = SelectSeq(raw_frame_subscribers, Live)
                /\ \A s \in LiveSubscribers : sub_rx'[s] = Append(sub_rx[s], f)
                /\ ~Unmatched(f) =>
                      rx'[ActiveTx(nodes, f.id - 1408)]
                         = <<Decoded(f, ActiveTx(nodes, f.id - 1408))>>
        /\ (\A f \in Frames : ~FrameReceived(f)) =>
              \A i \in DOMAIN raw_frame_subscribers :
                 /\ i \in DOMAIN raw_frame_subscribers'
                 /\ raw_frame_subscribers'[i] = raw_frame_subscribers[i] ]_vars

\* the first subscriber dropped its receiver and is out of the registry; the
\* second holds the SDO response that completed the read of device 1
C12_Witness ==
    /\ 1 \in sub_dropped
    /\ raw_frame_subscribers = <<2>>
    /\ sub_rx[2] = <<CanFrame(FALSE, 1409, Expedited1000)>>
    /\ Ops # {} /\ Len(rx[1]) = 1 /\ is_ok(rx[1][1])

\* what the caller of sdo_read / sdo_write on channel tx has got back: nothing
\* while response_rx.await is pending, the converted result once one was sent,
\* an error of its own once the sender was dropped
sdo_returns(tx) ==
    IF rx[tx] # <<>> THEN Some(sdo_result(rx[tx][1]))
    ELSE IF tx \in closed THEN Some(Err(RequestFailed("Failed to get response")))
    ELSE None

\* C13: removing a device removes its session, and the callers of its active
\* and queued operations get nothing back, neither a value nor an error.
C13_UnregisterLeavesWaiters ==
    [][ \A d \in DOMAIN nodes :
           RemoveNode(d) =>
              /\ d \notin DOMAIN nodes'
              /\ alive'
              /\ \A tx \in SendersOf(nodes[d]) : is_none(sdo_returns(tx)') ]_vars

\* C14: registering device d leaves d with a fresh session (nothing queued,
\* nothing active) whether or not it had one, adds no other session and changes
\* no other session; an operation the replaced session held is never handed to
\* the socket again.
C14_ReRegisterReplaces ==
    [][ /\ \A d \in NodeIds :
             AddNode(d) =>
                /\ DOMAIN nodes' = DOMAIN nodes \cup {d}
                /\ nodes'[d] = NodeState_new(default_timeout)
                /\ \A e \in DOMAIN nodes \ {d} : nodes'[e] = nodes[e]
                /\ \A tx \in Dropped(d) :
                      /\ sends'[tx] = sends[tx]
                      /\ \A e \in DOMAIN nodes' : tx \notin SendersOf(nodes'[e])
        /\ \A tx \in closed :
              /\ sends'[tx] = sends[tx]
              /\ \A e \in DOMAIN nodes' : tx \notin SendersOf(nodes'[e]) ]_vars

\* device 1 was registered again while it had one operation active and one
\* queued: its session is fresh and the queued operation was never sent
C14_Witness ==
    /\ 1 \in DOMAIN nodes /\ nodes[1] = NodeState_new(default_timeout)
    /\ Len(admitted) = 2
    /\ \A tx \in Ops : admitted[tx].node_id = 1 /\ admitted[tx].registered
                       /\ tx \in closed /\ rx[tx] = <<>>
    /\ sends[1] >= 1 /\ sends[2] = 0

\* C15: between two iterations of the loop no registered device has requests
\* queued and none active, and the active request of every device has been
\* handed to send_sdo_operation at least once.
C15_NoIdleDeviceWithQueue ==
    \A d \in DOMAIN nodes :
        /\ is_none(nodes[d].active_request) => nodes[d].pending_requests = <<>>
        /\ ActiveTx(nodes, d) # 0 => sends[ActiveTx(nodes, d)] >= 1

\* with both devices registered, an abort frame ended the first operation of
\* device 1 and the loop's tail started the one queued behind it
C15_Witness ==
    /\ DOMAIN nodes = NodeIds
    /\ Len(admitted) = 2
    /\ \A tx \in Ops : admitted[tx].node_id = 1 /\ admitted[tx].registered
    /\ Len(rx[1]) = 1 /\ is_err(rx[1][1]) /\ rx[1][1].err.kind = "AbortTransfer"
    /\ ActiveTx(nodes, 1) = 2 /\ sends[2] = 1
    /\ nodes[1].pending_requests = <<>>

(***************************************************************************)
(* Send failures                                                           *)
(***************************************************************************)
\* writes to 0x1000:00 of device 1: two bytes, and five bytes, which is more
\* than an expedited transfer carries
FaultWriteRequests ==
    {SdoWriteRequest(1, 4096, 0, <<52, 18>>), SdoWriteRequest(1, 4096, 0, <<1, 2, 3, 4, 5>>)}

\* the device answers requests only: a response frame arrives while more
\* requests have been written to the socket than responses were matched
DeviceAnswers ==
    Len(socket) > Cardinality({tx \in Ops : Resolved(tx) /\ rx[tx][1] # Err(Timeout)})

\* one device, a socket whose writes may fail, and a write that cannot be encoded
FaultNext ==
    \/ 1 \notin DOMAIN nodes /\ AddNode(1)
    \/ Len(admitted) < MaxFaultOps /\ SdoRequestCmd(1, SdoRequest(1, 4096, 0, "UInt16"))
    \/ \E r \in FaultWriteRequests :
          Len(admitted) < MaxFaultOps /\ SdoWriteRequestCmd(1, r)
    \/ \E f \in QueueFrames : DeviceAnswers /\ FrameReceived(f)
    \/ Tick
    \/ TimePasses
    \/ SocketFault

FaultSpec == Init /\ [][FaultNext]_vars

\* C16: when send_sdo_operation writes no frame for an operation, nothing is
\* written and the caller gets nothing in that step; no frame is written for
\* the operation later; until it is resolved it is the active operation of its device and
\* nothing queued behind it has been sent; and the only result it ever gets is
\* Timeout.
C16_SendFailureSilent ==
    /\ [](\A tx \in unsent :
             /\ rx[tx] \in {<<>>, <<Err(Timeout)>>}
             /\ (rx[tx] = <<>> /\ tx \notin closed)
                => /\ ActiveTx(nodes, admitted[tx].node_id) = tx
                   /\ \A q \in SendersOf(nodes[admitted[tx].node_id]) \ {tx} :
                         sends[q] = 0)
    /\ [][ /\ \A tx \in unsent : ~(sends'[tx] > sends[tx] /\ socket' # socket)
           /\ \A tx \in unsent' \ unsent :
                 socket' = socket /\ rx'[tx] = <<>> ]_vars

\* the operation admitted in this step, for a registered device
Admitted(tx) == tx \notin DOMAIN admitted /\ tx \in DOMAIN admitted' /\ admitted'[tx].registered

\* the active operation of device a gets its result in this step
Completes(a) ==
    /\ ActiveTx(nodes, a) # 0
    /\ rx[ActiveTx(nodes, a)] = <<>>
    /\ rx'[ActiveTx(nodes, a)] # <<>>

\* C17: an operation admitted for an idle device b while another device a
\* waits for its response is made active and sent in that step, with a's session
\* untouched; and a step that completes a's active operation, by a response or
\* by the timeout, leaves the session of every other device as it was unless
\* that device's own operation is completed in the same step.
C17_DevicesIndependent ==
    [][ /\ \A tx \in DOMAIN admitted' : \A a \in DOMAIN nodes :
             (/\ Admitted(tx)
              /\ a # admitted'[tx].node_id
              /\ ActiveTx(nodes, a) # 0
              /\ ActiveTx(nodes, admitted'[tx].node_id) = 0)
             => /\ ActiveTx(nodes', admitted'[tx].node_id) = tx
                /\ sends'[tx] = 1
                /\ nodes'[a] = nodes[a]
                /\ rx'[ActiveTx(nodes, a)] = rx[ActiveTx(nodes, a)]
        /\ \A a, b \in DOMAIN nodes :
             (a # b /\ Completes(a) /\ ~Completes(b))
             => /\ b \in DOMAIN nodes' /\ nodes'[b] = nodes[b]
                /\ \A q \in SendersOf(nodes[b]) : rx'[q] = rx[q] /\ sends'[q] = sends[q] ]_vars

\* the operation of device 2, admitted second, has its value while the
\* operation of device 1, admitted first, still waits for its response
C17_Witness ==
    /\ Len(admitted) = 2
    /\ admitted[1].node_id = 1 /\ admitted[1].registered
    /\ admitted[2].node_id = 2 /\ admitted[2].registered
    /\ Len(rx[2]) = 1 /\ is_ok(rx[2][1])
    /\ InFlight(1) /\ ActiveTx(nodes, 1) = 1

(***************************************************************************)
(* Callers that stop waiting                                               *)
(***************************************************************************)
\* one device whose callers may be aborted while they wait
AbortNext ==
    \/ 1 \notin DOMAIN nodes /\ AddNode(1)
    \/ Len(admitted) < MaxAbortOps /\ SdoRequestCmd(1, SdoRequest(1, 4096, 0, "UInt16"))
    \/ \E r \in WriteRequests(1) :
          Len(admitted) < MaxAbortOps /\ SdoWriteRequestCmd(1, r)
    \/ \E f \in QueueFrames : FrameReceived(f)
    \/ Tick
    \/ TimePasses
    \/ \E tx \in 1..MaxAbortOps : CallerAborts(tx)

AbortSpec == Init /\ [][AbortNext]_vars

\* the active operation of device d is taken out of its slot in this step
Leaves(d) ==
    /\ ActiveTx(nodes, d) # 0
    /\ ActiveTx(nodes', d) # ActiveTx(nodes, d)

\* C18: the manager keeps running; a caller that stops waiting changes no
\* session and no send; its operation leaves the active slot only in a frame
\* step or a timeout tick; and when an active operation leaves its slot, the
\* head of the queue becomes active and is handed to send_sdo_operation in the
\* same step, whichever of the two has lost its caller.
C18_AbandonedNotCancelled ==
    /\ []alive
    /\ [][ /\ abandoned' # abandoned
              => nodes' = nodes /\ sends' = sends /\ socket' = socket /\ rx' = rx
           /\ \A d \in DOMAIN nodes :
                 (Leaves(d) /\ ActiveTx(nodes, d) \in abandoned)
                 => /\ (\E f \in QueueFrames : FrameReceived(f)) \/ Tick
                    /\ rx'[ActiveTx(nodes, d)] = <<>>
           /\ \A d \in DOMAIN nodes :
                 (/\ Leaves(d)
                  /\ nodes[d].pending_requests # <<>>
                  /\ \/ ActiveTx(nodes, d) \in abandoned
                     \/ Head(nodes[d].pending_requests).operation.response_tx
                           \in abandoned)
                 => LET next == Head(nodes[d].pending_requests).operation.response_tx
                    IN  /\ ActiveTx(nodes', d) = next
                        /\ sends'[next] = sends[next] + 1
                        /\ Len(socket') = Len(socket) + 1 ]_vars

\* both callers stopped waiting; the first operation was completed with nobody
\* to receive its result and the second, queued behind it, is active and sent
C18_Witness ==
    /\ alive
    /\ abandoned = {1, 2}
    /\ closed = {}
    /\ rx[1] = <<>> /\ rx[2] = <<>>
    /\ ActiveTx(nodes, 1) = 2
    /\ nodes[1].pending_requests = <<>>
    /\ sends[1] >= 1 /\ sends[2] = 1

(***************************************************************************)
(* The codec on its own                                                    *)
(***************************************************************************)
\* command bytes: expedited uploads announcing 4, 3, 2 and 1 data bytes, an
\* abort, a download acknowledgement, a segmented upload and zero; an expedited
\* upload with no size indicated (0x42) and an upload segment response with
\* the toggle bit (0x10)
CodecCommands == {67, 71, 75, 79, 128, 96, 65, 0, 66, 16}

\* the (index, sub-index) a response names
CodecObjects == {<<4096, 0>>, <<4096, 1>>, <<8192, 1>>}

\* bytes 4..7 of a response: 0x1234, the abort codes 0x06020000 and 0x05040001,
\* and a value whose low bytes have their top bit set
CodecPayloads == {<<52, 18, 0, 0>>, <<0, 0, 2, 6>>, <<1, 0, 4, 5>>, <<255, 255, 86, 120>>}

\* responses of device 1 with every data length a CAN frame can have
CodecFrames ==
    {CanFrame(FALSE, 1409,
              SubSeq(<<c, o[1] % 256, o[1] \div 256, o[2]>> \o p, 1, n)) :
        c \in CodecCommands, o \in CodecObjects, p \in CodecPayloads, n \in 0..8}

SdoDataTypes ==
    {"UInt8", "UInt16", "UInt32", "Int8", "Int16", "Int32", "Real32",
     "VisibleString", "OctetString"}

\* reads of 0x1000:00 of device 1
CodecRequests == {SdoRequest(1, 4096, 0, t) : t \in SdoDataTypes}

CodecInit ==
    /\ ManagerInit
    /\ codec \in [frame : CodecFrames, request : CodecRequests, result : {None}]
    /\ mock = None
    /\ tpdo = None
    /\ AppIdle

\* parse_sdo_response(frame, &request)
ParseResponse ==
    /\ is_none(codec.result)
    /\ codec' = [codec EXCEPT
                    !.result = Some(parse_sdo_response(codec.frame, codec.request))]
    /\ UNCHANGED << manager_vars, mock, tpdo, app_vars >>

CodecNext == ParseResponse

CodecSpec == CodecInit /\ [][CodecNext]_vars

\* the response has fewer bytes than its header or its command byte calls for
Truncated(data) ==
    \/ Len(data) < 4
    \/ /\ data[2] + 256 * data[3] = 4096 /\ data[4] = 0
       /\ is_expedited_response(data[1])
       /\ 4 + (4 - BitField(data[1], 4, 4)) > Len(data)

\* C19: parsing never reads past the end of the frame, and a frame with fewer
\* bytes than its header or its command byte calls for gives the "too short"
\* error.
C19_NoOutOfBounds ==
    (codec # None /\ ~is_none(codec.result))
    => LET r == codec.result[1] IN
       /\ ~is_panic(r)
       /\ Truncated(codec.frame.data)
          => /\ is_err(r)
             /\ r.err = InvalidResponse(<<"Frame too short">>)

\* the frame names another object than the request
Mismatch(data, request) ==
    /\ Len(data) >= 4
    /\ data[2] + 256 * data[3] # request.index \/ data[4] # request.subindex

\* C20: a response of four bytes or more that names another index or
\* sub-index than the request gives the mismatch error, whatever its command
\* byte is, and no value.
C20_MismatchBeforeCommand ==
    (codec # None /\ ~is_none(codec.result)
     /\ Mismatch(codec.frame.data, codec.request))
    => LET r == codec.result[1] IN
       /\ ~is_panic(r) /\ is_err(r)
       /\ r.err.kind = "InvalidResponse"
       /\ r.err.msg[1] = "Response mismatch: expected, got"

\* an abort frame for 0x2000:01 was parsed against a read of 0x1000:00 and gave
\* the mismatch error
C20_Witness ==
    /\ codec # None /\ ~is_none(codec.result)
    /\ codec.frame.data = <<128, 0, 32, 1, 52, 18, 0, 0>>
    /\ codec.request.index = 4096
    /\ codec.result[1] =
          Err(InvalidResponse(<<"Response mismatch: expected, got", 4096, 0, 8192, 1>>))

\* the frame has its header, names the object of the request, and its command
\* byte is neither the abort nor an expedited upload response
Unsupported(data, request) ==
    /\ Len(data) >= 4
    /\ data[2] + 256 * data[3] = request.index /\ data[4] = request.subindex
    /\ data[1] # 128
    /\ ~(data[1] \div 32 = 2 /\ (data[1] \div 2) % 2 = 1)

\* the errors the codec gives for a frame it cannot read as a response: too
\* short, or naming another object
Malformed(e) ==
    /\ e.kind = "InvalidResponse"
    /\ e.msg[1] \in {"Frame too short", "Response mismatch: expected, got"}

\* C21: a response that names the requested object and whose command byte is
\* neither 0x80 nor an expedited upload response is never decoded into a value:
\* it gives the "not implemented" error with the command byte, which differs,
\* also in the text the caller is handed, from the errors for a frame that is
\* too short or names another object.
C21_UnsupportedRejected ==
    (codec # None /\ ~is_none(codec.result)
     /\ Unsupported(codec.frame.data, codec.request))
    => LET r == codec.result[1] IN
       /\ ~is_panic(r) /\ is_err(r)
       /\ r.err = InvalidResponse(<<"Segmented SDO transfer not implemented yet (command)",
                                    codec.frame.data[1]>>)
       /\ ~Malformed(r.err)
       /\ \A f \in CodecFrames :
             LET other == parse_sdo_response(f, codec.request) IN
             (is_err(other) /\ Malformed(other.err))
             => FromSdoError(other.err) # FromSdoError(r.err)

\* a segmented upload response (0x41) for 0x1000:00 was parsed against the read
\* of 0x1000:00 and gave the "not implemented" error
C21_Witness ==
    /\ codec # None /\ ~is_none(codec.result)
    /\ codec.frame.data = <<65, 0, 16, 0, 52, 18, 0, 0>>
    /\ codec.request = SdoRequest(1, 4096, 0, "UInt16")
    /\ codec.result[1] =
          Err(InvalidResponse(<<"Segmented SDO transfer not implemented yet (command)", 65>>))

\* the bytes a fixed-width type is read from
Width(data_type) ==
    CASE data_type \in {"UInt8", "Int8"} -> 1
      [] data_type \in {"UInt16", "Int16"} -> 2
      [] data_type \in {"UInt32", "Int32", "Real32"} -> 4

\* the value of `bytes` read as data_type, least significant byte first
LittleEndian(bytes, data_type) ==
    CASE data_type = "UInt8" -> <<bytes[1]>>
      [] data_type = "Int8" -> <<IF bytes[1] >= 128 THEN bytes[1] - 256 ELSE bytes[1]>>
      [] data_type = "UInt16" -> <<bytes[1] + 256 * bytes[2]>>
      [] data_type = "Int16" ->
            <<bytes[1] + 256 * (IF bytes[2] >= 128 THEN bytes[2] - 256 ELSE bytes[2])>>
      [] data_type = "UInt32" ->
            <<bytes[1] + 256 * (bytes[2] + 256 * (bytes[3] + 256 * bytes[4]))>>
      [] data_type = "Int32" ->
            <<bytes[1] + 256 * (bytes[2] + 256 * (bytes[3] + 256 *
                 (IF bytes[4] >= 128 THEN bytes[4] - 256 ELSE bytes[4])))>>
      [] data_type = "Real32" -> bytes

\* the frame is an expedited upload response for the object of the request
\* and holds the bytes its command byte announces
ExpeditedFor(data, request) ==
    /\ Len(data) >= 4
    /\ data[2] + 256 * data[3] = request.index /\ data[4] = request.subindex
    /\ data[1] \div 32 = 2 /\ (data[1] \div 2) % 2 = 1
    /\ Len(data) >= 8 - ((data[1] \div 4) % 4)

\* C22: for an expedited upload response with unused count n that holds the
\* bytes it announces, the payload decoded is bytes 4..4+(4-n) of the frame: a
\* fixed-width type of width w gives ParseError if 4-n < w and otherwise the
\* little-endian value of the first w of these bytes; OctetString gives the
\* 4-n bytes as they are.
C22_ExpeditedPayload ==
    (codec # None /\ ~is_none(codec.result)
     /\ ExpeditedFor(codec.frame.data, codec.request))
    => LET r == codec.result[1]
           data == codec.frame.data
           n == (data[1] \div 4) % 4
           payload == [i \in 1..(4 - n) |-> data[4 + i]]
           data_type == codec.request.expected_type
       IN  /\ ~is_panic(r)
           /\ data_type = "OctetString"
              => is_ok(r) /\ r.val.data = [type |-> "Bytes", v |-> payload]
           /\ data_type \notin {"OctetString", "VisibleString"}
              => IF 4 - n < Width(data_type)
                 THEN is_err(r) /\ r.err.kind = "ParseError"
                 ELSE /\ is_ok(r)
                      /\ r.val.data.type = data_type
                      /\ r.val.data.v =
                            LittleEndian(SubSeq(payload, 1, Width(data_type)), data_type)

\* a response announcing two data bytes (n = 2) was parsed against a read
\* declared UInt32 and gave ParseError
C22_Witness ==
    /\ codec # None /\ ~is_none(codec.result)
    /\ codec.frame.data = <<75, 0, 16, 0, 255, 255, 86, 120>>
    /\ codec.request = SdoRequest(1, 4096, 0, "UInt32")
    /\ codec.result[1] = Err(ParseError(<<"Insufficient data for UInt32">>))

\* the codes of the description table
KnownAbortCodes ==
    {84082688, 84148224, 84148225, 84148229, 100728832, 100728833, 100728834,
     100794368, 100925505, 100925506, 100925507, 100925511, 101056512,
     101122064, 101122066, 101122067, 101253137, 101253168, 101253169,
     101253170, 101253174, 134217728, 134217760, 134217761, 134217762}

\* the frame is an abort (0x80) for the object of the request
AbortFor(data, request) ==
    /\ Len(data) >= 4
    /\ data[2] + 256 * data[3] = request.index /\ data[4] = request.subindex
    /\ data[1] = 128

\* C23: an abort frame naming the requested object always gives the error
\* AbortTransfer, whatever type the read declared: its code is the
\* little-endian value of bytes 4..7 (0 if the frame has fewer than 8 bytes),
\* its description is the table's text for a code of the table (for
\* 0x06020000 exactly "Object does not exist in the object dictionary") and
\* the hexadecimal fallback for any other code.
C23_AbortDecoded ==
    (codec # None /\ ~is_none(codec.result)
     /\ AbortFor(codec.frame.data, codec.request))
    => LET r == codec.result[1]
           data == codec.frame.data
           code == IF Len(data) = 8
                   THEN data[5] + 256 * (data[6] + 256 * (data[7] + 256 * data[8]))
                   ELSE 0
       IN  /\ ~is_panic(r) /\ is_err(r)
           /\ r.err.kind = "AbortTransfer"
           /\ r.err.code = code
           /\ code = 100794368
              => r.err.msg = <<"Object does not exist in the object dictionary">>
           /\ code = 84148225
              => r.err.msg = <<"Client/server command specifier not valid or unknown">>
           /\ code \in KnownAbortCodes
              => Len(r.err.msg) = 1 /\ r.err.msg[1] # "Unknown abort code: 0x"
           /\ code \notin KnownAbortCodes
              => r.err.msg = <<"Unknown abort code: 0x", code>>

\* the abort 0x06020000 for 0x1000:00 was parsed against the read of 0x1000:00
C23_Witness ==
    /\ codec # None /\ ~is_none(codec.result)
    /\ codec.frame.data = <<128, 0, 16, 0, 0, 0, 2, 6>>
    /\ codec.request = SdoRequest(1, 4096, 0, "UInt16")
    /\ codec.result[1] =
          Err(AbortTransfer(100794368,
                            <<"Object does not exist in the object dictionary">>))

(***************************************************************************)
(* Responses to writes                                                     *)
(***************************************************************************)
\* frames in the response range of device 1: the download acknowledgement of
\* 0x1000:00, acknowledgements naming another index and another sub-index, an
\* abort, an upload response, and an acknowledgement cut to three bytes
WriteFrames ==
    {CanFrame(FALSE, 1409, data) :
        data \in {DownloadAck1000, <<96, 0, 32, 0, 0, 0, 0, 0>>,
                  <<96, 0, 16, 1, 0, 0, 0, 0>>, Abort1000, Expedited1000,
                  <<96, 0, 16>>}}

\* one device that is written to and read from
WriteNext ==
    \/ 1 \notin DOMAIN nodes /\ AddNode(1)
    \/ Len(admitted) < MaxWriteOps /\ SdoRequestCmd(1, SdoRequest(1, 4096, 0, "UInt16"))
    \/ \E r \in WriteRequests(1) :
          Len(admitted) < MaxWriteOps /\ SdoWriteRequestCmd(1, r)
    \/ \E f \in WriteFrames : FrameReceived(f)
    \/ Tick
    \/ TimePasses

WriteSpec == Init /\ [][WriteNext]_vars

\* the frame has command byte 0x60 and names the object of the request
Acknowledges(data, request) ==
    /\ Len(data) >= 4
    /\ data[1] = 96
    /\ data[2] + 256 * data[3] = request.index /\ data[4] = request.subindex

\* C24: a frame in the response range of a device whose active operation is a
\* write gives that write its one result in the same step: success if the frame
\* has command byte 0x60 and names the written index and sub-index, an error for
\* every other frame; and a write gets a success in no other step.
C24_WriteAcknowledged ==
    [][ /\ \A f \in WriteFrames :
             (/\ ActiveTx(nodes, 1) # 0
              /\ admitted[ActiveTx(nodes, 1)].kind = "Write"
              /\ FrameReceived(f))
             => LET tx == ActiveTx(nodes, 1) IN
                /\ rx[tx] = <<>> /\ Len(rx'[tx]) = 1
                /\ IF Acknowledges(f.data, admitted[tx].request)
                   THEN rx'[tx][1] = Ok(<<>>)
                   ELSE is_err(rx'[tx][1])
        /\ \A tx \in Ops :
             (/\ admitted[tx].kind = "Write"
              /\ rx'[tx] # rx[tx]
              /\ \E i \in DOMAIN rx'[tx] : ~is_err(rx'[tx][i]))
             => \E f \in WriteFrames :
                   /\ FrameReceived(f)
                   /\ ActiveTx(nodes, 1) = tx
                   /\ Acknowledges(f.data, admitted[tx].request) ]_vars

\* two writes: the first was acknowledged, the second, queued behind it, was
\* answered by an abort and ended with that error
C24_Witness ==
    /\ Len(admitted) = 2
    /\ \A tx \in Ops : admitted[tx].kind = "Write" /\ admitted[tx].registered
    /\ rx[1] = <<Ok(<<>>)>>
    /\ Len(rx[2]) = 1 /\ is_err(rx[2][1]) /\ rx[2][1].err.kind = "AbortTransfer"

(***************************************************************************)
(* The mock node on its own                                                *)
(***************************************************************************)
\* an object dictionary built with add_static and add_dynamic: 0x1234 at
\* 0x1000:00, static entries of 0, 1, 3, 4 and 15 bytes, and the counter
ServerObjects ==
    (<<4096, 0>> :> Static(<<52, 18>>, "UInt16"))
    @@ (<<4097, 0>> :> Static(<<0>>, "UInt8"))
    @@ (<<4104, 0>> :> Static(<<77, 111, 99, 107, 67, 65, 78, 111, 112, 101, 110,
                               78, 111, 100, 101>>, "VisibleString"))
    @@ (<<4120, 1>> :> Static(<<1, 0, 0, 0>>, "UInt32"))
    @@ (<<8193, 1>> :> Dynamic(0, "UInt32"))
    @@ (<<8198, 0>> :> Static(<<>>, "OctetString"))
    @@ (<<8199, 0>> :> Static(<<1, 2, 3>>, "OctetString"))

\* the objects requests name: those of the dictionary and 0x3000:00
ServerAddresses == DOMAIN ServerObjects \cup {<<12288, 0>>}

\* frames on the bus of mock node 1: upload requests (0x40), download requests
\* (0x23) and aborts (0x80) to 0x601 with 3, 4 and 8 data bytes, an upload
\* request to node 2, one with an extended identifier, and a response of node 1
ServerFrames ==
    {CanFrame(FALSE, 1537,
              SubSeq(<<c, o[1] % 256, o[1] \div 256, o[2], 0, 0, 0, 0>>, 1, n)) :
        c \in {64, 35, 128}, o \in ServerAddresses, n \in {3, 4, 8}}
    \cup {CanFrame(FALSE, 1538, <<64, 0, 16, 0, 0, 0, 0, 0>>),
          CanFrame(TRUE, 1537, <<64, 0, 16, 0, 0, 0, 0, 0>>),
          CanFrame(FALSE, 1409, Expedited1000)}

MockInit ==
    mock = [server |-> SdoServer_new(1, ServerObjects), handled |-> <<>>, out |-> <<>>]

ServerInit == ManagerInit /\ codec = None /\ MockInit /\ tpdo = None /\ AppIdle

\* one round of the mock node's loop: read_frame, handle_frame, and
\* write_frame of the response if there is one
ServerHandles(frame) ==
    /\ LET r == handle_frame(mock.server, frame) IN
       mock' = [server |-> r.self,
                handled |-> Append(mock.handled,
                                   [frame |-> frame, response |-> r.response]),
                out |-> mock.out \o r.response]
    /\ UNCHANGED << manager_vars, codec, tpdo, app_vars >>

\* the client decodes a response of the mock node against a read of the object
\* it asked for, declared as bytes or with the type the dictionary gives it
ClientParses ==
    /\ codec = None
    /\ \E i \in DOMAIN mock.handled :
          /\ ~is_none(mock.handled[i].response)
          /\ LET asked == mock.handled[i].frame.data
                 index == u16_from_le_bytes(asked[2], asked[3])
                 subindex == asked[4]
             IN  \E t \in {"OctetString"}
                          \cup {ServerObjects[o].data_type :
                                   o \in DOMAIN ServerObjects \cap {<<index, subindex>>}} :
                    LET request == SdoRequest(mock.server.node_id, index, subindex, t)
                        frame == mock.handled[i].response[1]
                    IN  codec' = [frame |-> frame, request |-> request,
                                  result |-> Some(parse_sdo_response(frame, request))]
    /\ UNCHANGED << manager_vars, mock, tpdo, app_vars >>

ServerNext ==
    \/ \E f \in ServerFrames : Len(mock.handled) < MaxServerFrames /\ ServerHandles(f)
    \/ ClientParses

ServerSpec == ServerInit /\ [][ServerNext]_vars

\* C25: for a static entry of the mock node's dictionary with 0 to 4 bytes,
\* the response the server builds for it, decoded by the client against a read
\* of the same index and sub-index, gives the bytes of the entry, as many as it
\* has (and the little-endian value of these bytes for the type of that width).
C25_RoundTrip ==
    (/\ codec # None
     /\ <<codec.request.index, codec.request.subindex>> \in DOMAIN ServerObjects)
    => LET entry == ServerObjects[<<codec.request.index, codec.request.subindex>>]
           r == codec.result[1]
           data_type == codec.request.expected_type
       IN  (~entry.dynamic /\ Len(entry.data) <= 4)
           => /\ ~is_panic(r) /\ is_ok(r)
              /\ data_type = "OctetString"
                 => r.val.data = [type |-> "Bytes", v |-> entry.data]
              /\ (data_type \in {"UInt8", "UInt16", "UInt32"}
                  /\ Len(entry.data) = Width(data_type))
                 => r.val.data = [type |-> data_type,
                                  v |-> LittleEndian(entry.data, data_type)]

\* the frame is an upload request addressed to the server: standard
\* identifier 0x600 + node id, four bytes or more, command byte 0x40
UploadRequestFor(self, frame) ==
    /\ ~frame.ext
    /\ frame.id = 1536 + self.node_id
    /\ Len(frame.data) >= 4
    /\ frame.data[1] = 64

\* C26: the server answers an upload request for an address that is not in
\* its table with the abort 0x06020000 and one for an entry of more than four
\* bytes with the abort 0x05040001; every frame it emits is a standard frame
\* 0x580 + id of eight bytes that repeats bytes 1..3 of the request, and a
\* frame that is not an abort carries the whole entry.
C26_ServerAborts ==
    \A i \in DOMAIN mock.handled :
        LET frame == mock.handled[i].frame
            response == mock.handled[i].response
            address == <<u16_from_le_bytes(frame.data[2], frame.data[3]), frame.data[4]>>
        IN  /\ ~is_none(response)
               => /\ ~response[1].ext
                  /\ response[1].id = 1408 + mock.server.node_id
                  /\ Len(response[1].data) = 8
                  /\ SubSeq(response[1].data, 2, 4) = SubSeq(frame.data, 2, 4)
                  /\ response[1].data[1] # 128
                     => /\ address \in DOMAIN ServerObjects
                        /\ ~ServerObjects[address].dynamic
                           => Len(ServerObjects[address].data) <= 4
            /\ (UploadRequestFor(mock.server, frame)
                /\ address \notin DOMAIN ServerObjects)
               => /\ ~is_none(response)
                  /\ SubSeq(response[1].data, 5, 8) = <<0, 0, 2, 6>>
                  /\ response[1].data[1] = 128
            /\ (/\ UploadRequestFor(mock.server, frame)
                /\ address \in DOMAIN ServerObjects
                /\ ~ServerObjects[address].dynamic
                /\ Len(ServerObjects[address].data) > 4)
               => /\ ~is_none(response)
                  /\ SubSeq(response[1].data, 5, 8) = <<1, 0, 4, 5>>
                  /\ response[1].data[1] = 128

\* the server was asked for 0x3000:00, which it does not have, and for the
\* 15-byte entry 0x1008:00, and answered with the two aborts
C26_Witness ==
    /\ Len(mock.handled) = 2
    /\ mock.out = << CanFrame(FALSE, 1409, <<128, 0, 48, 0, 0, 0, 2, 6>>),
                     CanFrame(FALSE, 1409, <<128, 8, 16, 0, 1, 0, 4, 5>>) >>

\* C27: a frame the server reads makes it emit one frame if it is an upload
\* request addressed to it (standard identifier 0x600 + id, at least four
\* bytes, command byte 0x40), and otherwise nothing, leaving the server and its
\* table as they were.
C27_ServerAnswersOnlyUploads ==
    [][ \A f \in ServerFrames :
           ServerHandles(f) =>
              IF UploadRequestFor(mock.server, f)
              THEN Len(mock'.out) = Len(mock.out) + 1
              ELSE mock'.out = mock.out /\ mock'.server = mock.server ]_vars

\* the server let a download request for 0x1000:00 pass and then answered the
\* upload request for it
C27_Witness ==
    /\ Len(mock.handled) = 2
    /\ mock.handled[1].frame = CanFrame(FALSE, 1537, <<35, 0, 16, 0, 0, 0, 0, 0>>)
    /\ is_none(mock.handled[1].response)
    /\ mock.handled[2].frame = CanFrame(FALSE, 1537, <<64, 0, 16, 0, 0, 0, 0, 0>>)
    /\ mock.out = << CanFrame(FALSE, 1409, <<75, 0, 16, 0, 52, 18, 0, 0>>) >>

\* the rounds of the mock node's loop, in order, in which it answered an upload
\* request for the object at index:subindex
AnsweredReads(index, subindex) ==
    {i \in DOMAIN mock.handled :
        /\ ~is_none(mock.handled[i].response)
        /\ u16_from_le_bytes(mock.handled[i].frame.data[2],
                             mock.handled[i].frame.data[3]) = index
        /\ mock.handled[i].frame.data[4] = subindex}

\* the data bytes of the response of round i
Returned(i) ==
    LET data == mock.handled[i].response[1].data IN SubSeq(data, 5, Len(data))

\* C39: the n-th upload of the counter at 0x2001:01 which the mock node answers
\* returns the little-endian bytes of n - 1, whatever other requests came in
\* between, so consecutive reads return consecutive values, and the counter
\* has moved by exactly one per read; two answered uploads of the same static
\* entry return the same response.
C39_DynamicReevaluated ==
    /\ \A i \in AnsweredReads(8193, 1) :
          Returned(i) = u32_to_le_bytes(
                           Cardinality({j \in AnsweredReads(8193, 1) : j < i}))
    /\ mock.server.object_dict[<<8193, 1>>].counter
          = Cardinality(AnsweredReads(8193, 1))
    /\ \A o \in DOMAIN ServerObjects :
          ~ServerObjects[o].dynamic
          => \A i, j \in AnsweredReads(o[1], o[2]) :
                mock.handled[i].response = mock.handled[j].response

\* the counter was read twice in a row: 0, then 1
C39_Witness ==
    /\ AnsweredReads(8193, 1) = {1, 2}
    /\ Returned(1) = <<0, 0, 0, 0>> /\ Returned(2) = <<1, 0, 0, 0>>

(***************************************************************************)
(* The manager and the mock node on one bus                                *)
(***************************************************************************)
\* reads of device 1: 0x1000:00 with the type of the entry and with a wider
\* one, the four-byte entry 0x1018:01, the three bytes of 0x2007:00, and
\* 0x3000:00, which the mock node does not have
EndToEndRequests ==
    {SdoRequest(1, 4096, 0, "UInt16"), SdoRequest(1, 4096, 0, "UInt32"),
     SdoRequest(1, 4120, 1, "UInt32"), SdoRequest(1, 8199, 0, "OctetString"),
     SdoRequest(1, 12288, 0, "UInt16")}

\* the mock node reads the next frame the manager wrote to the bus
ServerReads ==
    /\ Len(mock.handled) < Len(socket)
    /\ ServerHandles(socket[Len(mock.handled) + 1])

\* the manager's reader task takes the next frame the mock node wrote
BusFrame ==
    /\ mock.out # <<>>
    /\ TakeFrame(Head(mock.out))
    /\ mock' = [mock EXCEPT !.out = Tail(@)]
    /\ UNCHANGED << codec, tpdo, app_vars >>

EndToEndNext ==
    \/ 1 \notin DOMAIN nodes /\ AddNode(1)
    \/ \E r \in EndToEndRequests :
          Len(admitted) < MaxEndToEndOps /\ SdoRequestCmd(1, r)
    \/ ServerReads
    \/ BusFrame
    \/ FrameReceived(CanFrame(FALSE, 1409, Abort1000))
    \/ Tick
    \/ TimePasses

EndToEndSpec == ServerInit /\ [][EndToEndNext]_vars

\* the request reads a static entry of one to four bytes with the type the
\* dictionary gives it
Stored(request) ==
    /\ <<request.index, request.subindex>> \in DOMAIN ServerObjects
    /\ LET entry == ServerObjects[<<request.index, request.subindex>>] IN
       /\ ~entry.dynamic
       /\ Len(entry.data) \in 1..4
       /\ request.expected_type = entry.data_type

\* the value of a static entry as its own type
StoredValue(entry) ==
    IF entry.data_type = "OctetString"
    THEN [type |-> "Bytes", v |-> entry.data]
    ELSE [type |-> entry.data_type, v |-> LittleEndian(entry.data, entry.data_type)]

\* the frame is what the mock node wrote in answer to the request frame of
\* the read admitted on channel tx
AnswerTo(frame, tx) ==
    \E i \in DOMAIN mock.handled :
        /\ Ok(mock.handled[i].frame) = create_sdo_request_frame(admitted[tx].request)
        /\ mock.handled[i].response = Some(frame)

\* C28: when the manager takes the mock node's answer to the request of the
\* active read of device 1, a read of a static entry of one to four bytes with
\* the entry's own type, the read gets exactly the stored value, and the active
\* slot is given up by it: empty if nothing was queued, the next queued
\* operation's otherwise.
C28_EndToEndRead ==
    [][ \A tx \in Ops :
           (/\ ActiveTx(nodes, 1) = tx
            /\ admitted[tx].kind = "Read"
            /\ Stored(admitted[tx].request)
            /\ mock.out # <<>>
            /\ AnswerTo(Head(mock.out), tx)
            /\ BusFrame)
           => LET request == admitted[tx].request
                  entry == ServerObjects[<<request.index, request.subindex>>]
              IN  /\ Len(rx'[tx]) = 1 /\ is_ok(rx'[tx][1])
                  /\ rx'[tx][1].val.data = StoredValue(entry)
                  /\ rx'[tx][1].val.index = request.index
                  /\ rx'[tx][1].val.subindex = request.subindex
                  /\ ActiveTx(nodes', 1) # tx
                  /\ nodes[1].pending_requests = <<>>
                     => is_none(nodes'[1].active_request) ]_vars

\* the read of 0x1000:00 as UInt16 got 4660 from the mock node, and the active
\* slot of device 1 is free
C28_Witness ==
    /\ Len(admitted) = 1
    /\ admitted[1].request = SdoRequest(1, 4096, 0, "UInt16")
    /\ Len(rx[1]) = 1 /\ is_ok(rx[1][1])
    /\ rx[1][1].val.data = [type |-> "UInt16", v |-> <<4660>>]
    /\ Len(mock.handled) = 1 /\ mock.out = <<>>
    /\ 1 \in DOMAIN nodes /\ is_none(nodes[1].active_request)

(***************************************************************************)
(* CANopenNodeHandle::configure_tpdo                                       *)
(***************************************************************************)
TpdoMapping(index, sub_index, bit_length) ==
    [index |-> index, sub_index |-> sub_index, bit_length |-> bit_length]

TpdoConfigParams(tpdo_number, cob_id, transmission_type, inhibit_time_100us, event_timer_ms, mappings) ==
    [tpdo_number |-> tpdo_number, cob_id |-> cob_id,
     transmission_type |-> transmission_type,
     inhibit_time_100us |-> inhibit_time_100us,
     event_timer_ms |-> event_timer_ms, mappings |-> mappings]

\* faulty variant: only the lower end of the TPDO number is checked
configure_tpdo_rejects_lower_only(config) ==
    IF config.tpdo_number < 1
    THEN Some(Err(RequestFailed("TPDO number must be 1-4")))
    ELSE None

\* the checks configure_tpdo opens with: the Err it returns, if any
configure_tpdo_rejects(config) ==
    IF config.tpdo_number < 1 \/ config.tpdo_number > 4
    THEN Some(Err(RequestFailed("TPDO number must be 1-4")))
    ELSE IF Len(config.mappings) > 8
    THEN Some(Err(RequestFailed("Maximum 8 objects can be mapped to a TPDO")))
    ELSE None

\* (config.cob_id as u32 | 0x8000_0000).to_le_bytes()
disabled_cob_id_bytes(cob_id) ==
    LET b == u32_to_le_bytes(cob_id) IN <<b[1], b[2], b[3], BitOr(b[4], 128)>>

\* mapping_value.to_le_bytes(): the index in bits 31..16, the sub-index in
\* bits 15..8, the bit length in bits 7..0
mapping_value_bytes(mapping) ==
    << mapping.bit_length, mapping.sub_index,
       mapping.index % 256, (mapping.index \div 256) % 256 >>

\* faulty variant: the mapping count is written before the mapping entries
configure_tpdo_writes_count_first(node_id, config) ==
    LET comm_param_index == 6144 + (config.tpdo_number - 1)
        mapping_param_index == 6656 + (config.tpdo_number - 1)
    IN  << SdoWriteRequest(node_id, comm_param_index, 1,
                           disabled_cob_id_bytes(config.cob_id)),
           SdoWriteRequest(node_id, mapping_param_index, 0, <<0>>),
           SdoWriteRequest(node_id, mapping_param_index, 0, <<Len(config.mappings)>>) >>
        \o [i \in 1..Len(config.mappings) |->
              SdoWriteRequest(node_id, mapping_param_index, i,
                              mapping_value_bytes(config.mappings[i]))]
        \o << SdoWriteRequest(node_id, comm_param_index, 2,
                              <<config.transmission_type>>) >>
        \o (IF config.inhibit_time_100us > 0
            THEN << SdoWriteRequest(node_id, comm_param_index, 3,
                                    u16_to_le_bytes(config.inhibit_time_100us)) >>
            ELSE <<>>)
        \o (IF config.event_timer_ms > 0
            THEN << SdoWriteRequest(node_id, comm_param_index, 5,
                                    u16_to_le_bytes(config.event_timer_ms)) >>
            ELSE <<>>)
        \o << SdoWriteRequest(node_id, comm_param_index, 1,
                              u32_to_le_bytes(config.cob_id)) >>

\* the sdo_write calls of configure_tpdo in program order
configure_tpdo_writes(node_id, config) ==
    LET comm_param_index == 6144 + (config.tpdo_number - 1)
        mapping_param_index == 6656 + (config.tpdo_number - 1)
    IN  << SdoWriteRequest(node_id, comm_param_index, 1,
                           disabled_cob_id_bytes(config.cob_id)),
           SdoWriteRequest(node_id, mapping_param_index, 0, <<0>>) >>
        \o [i \in 1..Len(config.mappings) |->
              SdoWriteRequest(node_id, mapping_param_index, i,
                              mapping_value_bytes(config.mappings[i]))]
        \o << SdoWriteRequest(node_id, mapping_param_index, 0,
                              <<Len(config.mappings)>>),
              SdoWriteRequest(node_id, comm_param_index, 2,
                              <<config.transmission_type>>) >>
        \o (IF config.inhibit_time_100us > 0
            THEN << SdoWriteRequest(node_id, comm_param_index, 3,
                                    u16_to_le_bytes(config.inhibit_time_100us)) >>
            ELSE <<>>)
        \o (IF config.event_timer_ms > 0
            THEN << SdoWriteRequest(node_id, comm_param_index, 5,
                                    u16_to_le_bytes(config.event_timer_ms)) >>
            ELSE <<>>)
        \o << SdoWriteRequest(node_id, comm_param_index, 1,
                              u32_to_le_bytes(config.cob_id)) >>

\* mapping lists: 0x2000:01, 0x2000:02, ... of 32 bits each, up to MaxMappings
\* entries, and a list of nine
MappingLists ==
    {[i \in 1..k |-> TpdoMapping(8192, i, 32)] : k \in (0..MaxMappings) \cup {9}}

\* TPDO numbers 0, 1, 4 and 5 with COB-ID 0x181, event-driven (0xFE), with and
\* without an inhibit time and an event timer
TpdoConfigs ==
    {TpdoConfigParams(n, 385, 254, inhibit, event, mappings) :
        n \in {0, 1, 4, 5}, inhibit \in {0, 100}, event \in {0, 1000},
        mappings \in MappingLists}

\* configure_tpdo has been called on the handle of device 1
TpdoInit ==
    /\ ManagerInit /\ codec = None /\ mock = None /\ AppIdle
    /\ tpdo \in [config : TpdoConfigs, pc : {"called"}, step : {0}, tx : {0},
                 result : {None}]

\* configure_tpdo up to its first sdo_write
TpdoEnter ==
    /\ tpdo.pc = "called"
    /\ 1 \in handles
    /\ LET rejected == configure_tpdo_rejects(tpdo.config) IN
       tpdo' = IF is_none(rejected)
               THEN [tpdo EXCEPT !.pc = "write", !.step = 1]
               ELSE [tpdo EXCEPT !.pc = "done", !.result = rejected]
    /\ UNCHANGED << manager_vars, codec, mock, app_vars >>

\* self.sdo_write(..) up to its await: the request is sent to the manager,
\* which takes it
TpdoWrite ==
    /\ tpdo.pc = "write"
    /\ LET request == configure_tpdo_writes(1, tpdo.config)[tpdo.step] IN
       IF alive
       THEN /\ Admit(1, "Write", request, Write(request, Len(admitted) + 1))
            /\ tpdo' = [tpdo EXCEPT !.pc = "await", !.tx = Len(admitted) + 1]
       ELSE /\ tpdo' = [tpdo EXCEPT
                          !.pc = "done",
                          !.result = Some(Err(RequestFailed("Connection manager died")))]
            /\ UNCHANGED manager_vars
    /\ UNCHANGED << codec, mock, app_vars >>

\* response_rx.await returns and `?` either goes on to the next write, or
\* returns the error; after the last write configure_tpdo returns Ok(())
TpdoResume ==
    /\ tpdo.pc = "await"
    /\ ~is_none(sdo_returns(tpdo.tx))
    /\ LET returned == sdo_returns(tpdo.tx)[1] IN
       tpdo' = IF is_ok(returned)
               THEN IF tpdo.step = Len(configure_tpdo_writes(1, tpdo.config))
                    THEN [tpdo EXCEPT !.pc = "done", !.result = Some(Ok(<<>>))]
                    ELSE [tpdo EXCEPT !.pc = "write", !.step = @ + 1]
               ELSE [tpdo EXCEPT !.pc = "done", !.result = Some(returned)]
    /\ UNCHANGED << manager_vars, codec, mock, app_vars >>

\* what device 1 may answer: a download acknowledgement or an abort for any of
\* the objects the configuration writes
TpdoFrames ==
    {CanFrame(FALSE, 1409,
              <<c, w.index % 256, w.index \div 256, w.subindex, 0, 0, 0, 0>>) :
        c \in {96, 128},
        w \in {configure_tpdo_writes(1, tpdo.config)[k] :
                 k \in 1..(IF is_none(configure_tpdo_rejects(tpdo.config))
                           THEN Len(configure_tpdo_writes(1, tpdo.config)) ELSE 0)}}

TpdoNext ==
    \/ 1 \notin DOMAIN nodes /\ AddNode(1)
    \/ 1 \in DOMAIN nodes /\ RemoveNode(1)
    \/ TpdoEnter
    \/ TpdoWrite
    \/ TpdoResume
    \/ \E f \in TpdoFrames : FrameReceived(f)
    \/ Tick
    \/ TimePasses

TpdoSpec == TpdoInit /\ [][TpdoNext]_vars

\* the writes the configuration calls for, in order: (index, sub-index, data)
TpdoSequence(config) ==
    LET comm == 6144 + config.tpdo_number - 1
        map == 6656 + config.tpdo_number - 1
        cob == << config.cob_id % 256, (config.cob_id \div 256) % 256,
                  (config.cob_id \div 65536) % 256, config.cob_id \div 16777216 >>
    IN  << <<comm, 1, <<cob[1], cob[2], cob[3], cob[4] + 128>> >>,
           <<map, 0, <<0>> >> >>
        \o [i \in 1..Len(config.mappings) |->
              <<map, i, << config.mappings[i].bit_length,
                           config.mappings[i].sub_index,
                           config.mappings[i].index % 256,
                           config.mappings[i].index \div 256 >> >>]
        \o << <<map, 0, <<Len(config.mappings)>> >>,
              <<comm, 2, <<config.transmission_type>> >> >>
        \o (IF config.inhibit_time_100us # 0
            THEN << <<comm, 3, << config.inhibit_time_100us % 256,
                                  config.inhibit_time_100us \div 256 >> >> >>
            ELSE <<>>)
        \o (IF config.event_timer_ms # 0
            THEN << <<comm, 5, << config.event_timer_ms % 256,
                                  config.event_timer_ms \div 256 >> >> >>
            ELSE <<>>)
        \o << <<comm, 1, cob>> >>

\* the configuration passes the checks on the TPDO number and the mapping count
TpdoAcceptable(config) ==
    config.tpdo_number \in 1..4 /\ Len(config.mappings) <= 8

\* C29: configure_tpdo issues its writes strictly in the order disable COB-ID
\* (bit 31 set), mapping count 0, each mapping entry, mapping count N,
\* transmission type, inhibit time if nonzero, event timer if nonzero, enable
\* COB-ID; a write is issued only after the one before it succeeded, and the
\* first failing write's failure is what configure_tpdo returns
C29_TpdoWriteOrder ==
    (tpdo # None /\ TpdoAcceptable(tpdo.config)) =>
        LET expected == TpdoSequence(tpdo.config) IN
        /\ Len(admitted) <= Len(expected)
        /\ \A k \in DOMAIN admitted :
              /\ admitted[k].kind = "Write"
              /\ admitted[k].request.node_id = 1
              /\ << admitted[k].request.index, admitted[k].request.subindex,
                    admitted[k].request.data >> = expected[k]
              /\ k > 1 => rx[k - 1] = << Ok(<<>>) >>
        /\ Len(socket) <= Len(admitted)
        /\ \A k \in DOMAIN socket :
              /\ socket[k].id = 1537
              /\ SubSeq(socket[k].data, 2, 4)
                    = << expected[k][1] % 256, expected[k][1] \div 256, expected[k][2] >>
        /\ tpdo.pc = "done" =>
              IF is_ok(tpdo.result[1])
              THEN /\ Len(admitted) = Len(expected)
                   /\ \A k \in DOMAIN admitted : rx[k] = << Ok(<<>>) >>
              ELSE /\ Len(admitted) >= 1
                   /\ sdo_returns(Len(admitted)) = tpdo.result

\* a configuration with two mappings, an inhibit time and an event timer was
\* written in full: nine writes, all acknowledged
C29_Witness ==
    /\ tpdo # None
    /\ tpdo.pc = "done"
    /\ tpdo.result = Some(Ok(<<>>))
    /\ Len(tpdo.config.mappings) = 2
    /\ tpdo.config.inhibit_time_100us > 0
    /\ tpdo.config.event_timer_ms > 0
    /\ Len(admitted) = 9
    /\ Len(socket) = 9

\* C30: configure_tpdo with a TPDO number outside 1..4, or with more than 8
\* mappings, returns an error and submits no write
C30_TpdoRejected ==
    (tpdo # None /\ ~TpdoAcceptable(tpdo.config)) =>
        /\ admitted = <<>>
        /\ socket = <<>>
        /\ sends = <<>>
        /\ \A d \in DOMAIN nodes : nodes[d] = NodeState_new(default_timeout)
        /\ tpdo.pc \in {"called", "done"}
        /\ tpdo.pc = "done" => is_err(tpdo.result[1])

\* TPDO 5 was asked for on a registered device and configure_tpdo has returned
C30_Witness ==
    /\ tpdo # None
    /\ tpdo.pc = "done"
    /\ tpdo.config.tpdo_number = 5
    /\ Len(tpdo.config.mappings) <= 8
    /\ 1 \in DOMAIN nodes

(***************************************************************************)
(* communication.rs: discover_tpdos_from_device                            *)
(***************************************************************************)
TpdoMappedObject(index, sub_index, bit_length, data_type, name) ==
    [index |-> index, sub_index |-> sub_index, bit_length |-> bit_length,
     data_type |-> data_type, name |-> name]

TpdoConfig(tpdo_number, cob_id, mapped_objects) ==
    [tpdo_number |-> tpdo_number, cob_id |-> cob_id, mapped_objects |-> mapped_objects]

\* faulty variant: the sub-index is taken from the low byte and the bit length
\* from the byte above it
mapping_fields_swapped(mapping_value) ==
    [index |-> (mapping_value \div 65536) % 65536,
     sub_index |-> mapping_value % 256,
     bit_length |-> (mapping_value \div 256) % 256]

\* obj_index, obj_subindex and bit_length of a mapping value
mapping_fields(mapping_value) ==
    [index |-> (mapping_value \div 65536) % 65536,
     sub_index |-> (mapping_value \div 256) % 256,
     bit_length |-> mapping_value % 256]

\* format!("0x{:04X}:{:02X}", obj_index, obj_subindex): the pieces of the text
generic_name(obj_index, obj_subindex) == <<"0x", obj_index, ":", obj_subindex>>

\* the data type inferred from the bit length, if any
inferred_data_type(bit_length) ==
    CASE bit_length = 8 -> Some("UInt8")
      [] bit_length = 16 -> Some("UInt16")
      [] bit_length = 32 -> Some("UInt32")
      [] OTHER -> None

\* the body of `for sub in 1..=num_mapped` for one read result: mapped_objects
\* afterwards
read_mapping(mapped_objects, returned) ==
    IF is_ok(returned) /\ returned.val.data.type = "UInt32"
    THEN LET fields == mapping_fields(returned.val.data.v[1])
             data_type == inferred_data_type(fields.bit_length)
         IN  IF is_none(data_type) THEN mapped_objects
             ELSE Append(mapped_objects,
                         TpdoMappedObject(fields.index, fields.sub_index,
                                          fields.bit_length, data_type[1],
                                          generic_name(fields.index, fields.sub_index)))
    ELSE mapped_objects

\* the objects the device may have mapped: 8 bits of 0x2000:01, 32 bits of
\* 0xA000:02, and 1 bit of 0x2000:03
DeviceMappings ==
    {TpdoMapping(8192, 1, 8), TpdoMapping(40960, 2, 32), TpdoMapping(8192, 3, 1)}

\* what the device may hold at the object a discovery read names: the COB-ID
\* 0x181 valid or with bit 31 set, a mapped-object count (up to MaxMapped for
\* TPDO 1 and 2, up to 1 for TPDO 3 and 4), a mapping value (one value for
\* TPDO 3 and 4)
DeviceValues(tpdo_num, request) ==
    IF request.index < 6656
    THEN {<<129, 1, 0, 0>>, <<129, 1, 0, 128>>}
    ELSE IF request.subindex = 0
    THEN {<<count>> : count \in 0..(IF tpdo_num <= 2 THEN MaxMapped ELSE 1)}
    ELSE {mapping_value_bytes(mapping) :
            mapping \in IF tpdo_num <= 2 THEN DeviceMappings
                        ELSE {TpdoMapping(8192, 1, 8)}}

\* what sdo_read may return to discovery: the parsed expedited response with
\* one of the values, or the error for an abort (0x06020000) from the device
DiscoveryAnswers(tpdo_num, request) ==
    LET address == << request.index % 256, request.index \div 256, request.subindex >>
    IN  {sdo_result(parse_sdo_response(
            CanFrame(FALSE, 1408 + request.node_id,
                     << 67 + 4 * (4 - Len(value)) >> \o address \o value
                        \o [i \in 1..(4 - Len(value)) |-> 0]),
            request)) : value \in DeviceValues(tpdo_num, request)}
        \cup {sdo_result(parse_sdo_response(
                CanFrame(FALSE, 1408 + request.node_id,
                         <<128>> \o address \o <<0, 0, 2, 6>>), request))}

\* discover_tpdos_from_device is entered: tpdo_num = 1, nothing read yet
DiscoveryInit ==
    /\ ManagerInit /\ codec = None /\ mock = None /\ tpdo = None
    /\ call = None /\ tpdo_handles = None
    /\ disc = [tpdo_num |-> 1, pc |-> "cob_id", sub |-> 0, cob_id |-> 0,
               num_mapped |-> 0, mapped_objects |-> <<>>, tpdo_configs |-> <<>>,
               reads |-> <<>>]

\* `continue` of the outer loop, or its end
NextTpdo(d) ==
    LET next == [d EXCEPT !.sub = 0, !.cob_id = 0, !.num_mapped = 0,
                          !.mapped_objects = <<>>]
    IN  IF d.tpdo_num = 4
        THEN [next EXCEPT !.pc = "done"]
        ELSE [next EXCEPT !.tpdo_num = @ + 1, !.pc = "cob_id"]

\* the read is added to those issued
Issued(d, request, returned) ==
    [d EXCEPT !.reads = Append(@, [tpdo_num |-> d.tpdo_num, request |-> request,
                                   returned |-> returned])]

\* the COB-ID read of one TPDO and what follows up to the next read
DiscoverCobId ==
    /\ disc # None /\ disc.pc = "cob_id"
    /\ LET request == SdoRequest(1, 6144 + (disc.tpdo_num - 1), 1, "UInt32") IN
       \E returned \in DiscoveryAnswers(disc.tpdo_num, request) :
          LET d == Issued(disc, request, returned) IN
          disc' = IF is_ok(returned) /\ returned.val.data.type = "UInt32"
                     /\ ~Bit31(returned.val.data.v[1])
                  THEN [d EXCEPT !.pc = "num_mapped",
                                 !.cob_id = returned.val.data.v[1] % 2048]
                  ELSE NextTpdo(d)
    /\ UNCHANGED << manager_vars, codec, mock, tpdo, call, tpdo_handles >>

\* the read of the mapped-object count and what follows up to the next read
DiscoverNumMapped ==
    /\ disc # None /\ disc.pc = "num_mapped"
    /\ LET request == SdoRequest(1, 6656 + (disc.tpdo_num - 1), 0, "UInt8") IN
       \E returned \in DiscoveryAnswers(disc.tpdo_num, request) :
          LET d == Issued(disc, request, returned) IN
          disc' = IF is_ok(returned) /\ returned.val.data.type = "UInt8"
                     /\ returned.val.data.v[1] # 0
                  THEN [d EXCEPT !.pc = "mapping", !.sub = 1,
                                 !.num_mapped = returned.val.data.v[1],
                                 !.mapped_objects = <<>>]
                  ELSE NextTpdo(d)
    /\ UNCHANGED << manager_vars, codec, mock, tpdo, call, tpdo_handles >>

\* one pass of `for sub in 1..=num_mapped`; after the last one the TPDO is
\* pushed unless mapped_objects is empty
DiscoverMapping ==
    /\ disc # None /\ disc.pc = "mapping"
    /\ LET request == SdoRequest(1, 6656 + (disc.tpdo_num - 1), disc.sub, "UInt32") IN
       \E returned \in DiscoveryAnswers(disc.tpdo_num, request) :
          LET d == Issued(disc, request, returned)
              mapped_objects == read_mapping(disc.mapped_objects, returned)
          IN  disc' = IF disc.sub < disc.num_mapped
                      THEN [d EXCEPT !.sub = @ + 1, !.mapped_objects = mapped_objects]
                      ELSE NextTpdo([d EXCEPT
                              !.tpdo_configs =
                                  IF mapped_objects # <<>>
                                  THEN Append(@, TpdoConfig(disc.tpdo_num, disc.cob_id,
                                                            mapped_objects))
                                  ELSE @])
    /\ UNCHANGED << manager_vars, codec, mock, tpdo, call, tpdo_handles >>

DiscoveryNext ==
    \/ DiscoverCobId
    \/ DiscoverNumMapped
    \/ DiscoverMapping

DiscoverySpec == DiscoveryInit /\ [][DiscoveryNext]_vars

\* the reads discovery has issued for TPDO n, in order
ReadsOf(n) == SelectSeq(disc.reads, LAMBDA r : r.tpdo_num = n)

\* TPDO n is in the result
Discovered(n) == \E i \in DOMAIN disc.tpdo_configs : disc.tpdo_configs[i].tpdo_number = n

\* the read returned a COB-ID with bit 31 set, or a mapped-object count of 0
DisabledOrEmpty(r) ==
    /\ is_ok(r.returned)
    /\ \/ r.request.subindex = 1 /\ r.request.index < 6656
          /\ r.returned.val.raw_data[8] >= 128
       \/ r.request.subindex = 0 /\ r.returned.val.raw_data[5] = 0

\* C31: a TPDO whose COB-ID has bit 31 set or whose mapped-object count is 0 is
\* absent from the result; a failed read of a TPDO is the last read issued for
\* that TPDO, which is then absent from the result; every TPDO number up to
\* the current one has been read from
C31_DiscoveryAbortsTpdo ==
    disc # None =>
        \A n \in 1..4 :
            LET R == ReadsOf(n) IN
            /\ (\E i \in DOMAIN R : DisabledOrEmpty(R[i])) => ~Discovered(n)
            /\ \A i \in DOMAIN R :
                  is_err(R[i].returned) => i = Len(R) /\ ~Discovered(n)
            /\ (n < disc.tpdo_num \/ disc.pc = "done") => R # <<>>

\* every read issued for TPDO n returned a value
AllReadsOk(n) == \A i \in DOMAIN ReadsOf(n) : is_ok(ReadsOf(n)[i].returned)

\* the mapping the device holds, from the four value bytes of its response
DeviceMapping(raw_data) ==
    [index |-> raw_data[7] + 256 * raw_data[8], sub_index |-> raw_data[6],
     bit_length |-> raw_data[5]]

\* index, sub-index and bit length of a discovered entry
Triple(object) ==
    [index |-> object.index, sub_index |-> object.sub_index,
     bit_length |-> object.bit_length]

\* C36: a discovered TPDO whose reads all returned a value lists as many
\* entries as the mapped-object count read from the device, entry i being the
\* mapping read from sub-index i
C36_DiscoveryKeepsEveryMapping ==
    disc # None =>
        \A c \in DOMAIN disc.tpdo_configs :
            LET config == disc.tpdo_configs[c]
                R == ReadsOf(config.tpdo_number)
            IN  AllReadsOk(config.tpdo_number) =>
                   /\ Len(config.mapped_objects) = R[2].returned.val.raw_data[5]
                   /\ \A i \in DOMAIN config.mapped_objects :
                         Triple(config.mapped_objects[i])
                            = DeviceMapping(R[2 + i].returned.val.raw_data)

\* C38: a mapping value packed by configure_tpdo and read back by discovery
\* is decomposed into the same index, sub-index and bit length: the entry
\* discovery adds for the value packed from a mapping of 8, 16 or 32 bits is
\* that mapping (0x20000108 gives 0x2000, 0x01, 8)
C38_MappingRoundTrip ==
    [][ \A mapping \in DeviceMappings :
           ( /\ disc # None /\ disc.pc = "mapping"
             /\ mapping.bit_length \in {8, 16, 32}
             /\ disc'.reads # disc.reads
             /\ LET r == disc'.reads[Len(disc'.reads)] IN
                /\ is_ok(r.returned)
                /\ SubSeq(r.returned.val.raw_data, 5, 8) = mapping_value_bytes(mapping) )
           => LET objects == IF disc'.pc = "mapping" /\ disc'.tpdo_num = disc.tpdo_num
                             THEN disc'.mapped_objects
                             ELSE disc'.tpdo_configs[Len(disc'.tpdo_configs)].mapped_objects
              IN  /\ objects # <<>>
                  /\ Triple(objects[Len(objects)]) = mapping ]_vars

\* discovery has read 0x20000108 and holds the entry 0x2000:01 of 8 bits
C38_Witness ==
    /\ disc # None
    /\ \E i \in DOMAIN disc.reads :
          /\ is_ok(disc.reads[i].returned)
          /\ disc.reads[i].request.subindex > 0
          /\ disc.reads[i].request.index >= 6656
          /\ SubSeq(disc.reads[i].returned.val.raw_data, 5, 8) = <<8, 1, 0, 32>>
    /\ \E c \in DOMAIN disc.tpdo_configs :
          \E i \in DOMAIN disc.tpdo_configs[c].mapped_objects :
             Triple(disc.tpdo_configs[c].mapped_objects[i]) = TpdoMapping(8192, 1, 8)

(***************************************************************************)
(* communication.rs: merge_tpdo_configs                                    *)
(***************************************************************************)
SdoSubObject(sub_index, name, data_type) ==
    [sub_index |-> sub_index, name |-> name, data_type |-> data_type]

\* sub_objects: BTreeMap<u8, SdoSubObject>, as a function on its keys
SdoObject(index, name, sub_objects) ==
    [index |-> index, name |-> name, sub_objects |-> sub_objects]

\* SdoDataType::from_eds_type
from_eds_type(eds_type) ==
    CASE eds_type \in {"0x0001", "1"} -> Some("UInt8")
      [] eds_type \in {"0x0002", "2"} -> Some("Int8")
      [] eds_type \in {"0x0003", "3"} -> Some("UInt16")
      [] eds_type \in {"0x0004", "4"} -> Some("Int16")
      [] eds_type \in {"0x0005", "5"} -> Some("UInt32")
      [] eds_type \in {"0x0006", "6"} -> Some("Int32")
      [] eds_type \in {"0x0008", "8"} -> Some("Real32")
      [] eds_type \in {"0x0009", "9"} -> Some("VisibleString")
      [] eds_type \in {"0x000A", "10"} -> Some("OctetString")
      [] OTHER -> None

\* iter().find(..): the first element that satisfies test, if any
Find(s, test(_)) ==
    LET found == SelectSeq(s, test) IN IF found = <<>> THEN None ELSE Some(found[1])

\* faulty variant: the description-file TPDO is not looked at
enrich_from_metadata_only(mapped_obj, eds_tpdo, sdo_data) ==
    IF /\ mapped_obj.index \in DOMAIN sdo_data
       /\ mapped_obj.sub_index \in DOMAIN sdo_data[mapped_obj.index].sub_objects
    THEN LET sub_obj == sdo_data[mapped_obj.index].sub_objects[mapped_obj.sub_index]
             dt == from_eds_type(sub_obj.data_type)
         IN  [mapped_obj EXCEPT !.name = sub_obj.name,
                                !.data_type = IF is_none(dt) THEN @ ELSE dt[1]]
    ELSE mapped_obj

\* the body of `for mapped_obj in &mut device_tpdo.mapped_objects`
enrich(mapped_obj, eds_tpdo, sdo_data) ==
    LET eds_obj == IF is_none(eds_tpdo) THEN None
                   ELSE Find(eds_tpdo[1].mapped_objects,
                             LAMBDA obj : /\ obj.index = mapped_obj.index
                                          /\ obj.sub_index = mapped_obj.sub_index)
    IN  IF ~is_none(eds_obj)
        THEN [mapped_obj EXCEPT !.name = eds_obj[1].name,
                                !.data_type = eds_obj[1].data_type]
        ELSE IF /\ mapped_obj.index \in DOMAIN sdo_data
                /\ mapped_obj.sub_index \in DOMAIN sdo_data[mapped_obj.index].sub_objects
        THEN LET sub_obj == sdo_data[mapped_obj.index].sub_objects[mapped_obj.sub_index]
                 dt == from_eds_type(sub_obj.data_type)
             IN  [mapped_obj EXCEPT !.name = sub_obj.name,
                                    !.data_type = IF is_none(dt) THEN @ ELSE dt[1]]
        ELSE mapped_obj

\* the second loop of merge_tpdo_configs
RECURSIVE add_missing(_, _)
add_missing(merged, eds_configs) ==
    IF eds_configs = <<>> THEN merged
    ELSE add_missing(
            IF \E i \in DOMAIN merged :
                  merged[i].tpdo_number = Head(eds_configs).tpdo_number
            THEN merged
            ELSE Append(merged, Head(eds_configs)),
            Tail(eds_configs))

merge_tpdo_configs(device_configs, eds_configs, sdo_data) ==
    LET enriched ==
          [d \in DOMAIN device_configs |->
             LET device_tpdo == device_configs[d]
                 eds_tpdo == Find(eds_configs,
                                  LAMBDA eds : eds.tpdo_number = device_tpdo.tpdo_number)
             IN  [device_tpdo EXCEPT
                    !.mapped_objects =
                        [j \in DOMAIN @ |-> enrich(@[j], eds_tpdo, sdo_data)]]]
    IN  add_missing(enriched, eds_configs)

\* an entry as discovery makes it: placeholder name, type from the bit length
DeviceObject(index, sub_index, bit_length) ==
    TpdoMappedObject(index, sub_index, bit_length,
                     inferred_data_type(bit_length)[1], generic_name(index, sub_index))

\* the configurations of s that have mapped objects
WithObjects(s) == SelectSeq(s, LAMBDA config : config.mapped_objects # <<>>)

\* what discovery may return: TPDO numbers 1..MaxMergeTpdos in ascending order,
\* each absent, or mapping 0x2000:01, or mapping 0x2000:02 and then 0x2000:01
MergeDeviceConfigs ==
    {WithObjects([n \in 1..MaxMergeTpdos |-> TpdoConfig(n, 384 + n, objects[n])]) :
        objects \in [1..MaxMergeTpdos ->
                       {<<>>, <<DeviceObject(8192, 1, 8)>>,
                        <<DeviceObject(8192, 2, 16), DeviceObject(8192, 1, 8)>>}]}

\* what the description file may give: TPDO numbers 1..MaxMergeTpdos + 1 on
\* other COB-IDs, each absent, or mapping 0x2000:01 as "Speed" (Int8), or that
\* and 0x2000:03 as "Torque"
MergeEdsConfigs ==
    {WithObjects([n \in 1..(MaxMergeTpdos + 1) |-> TpdoConfig(n, 416 + n, objects[n])]) :
        objects \in [1..(MaxMergeTpdos + 1) ->
                       {<<>>, <<TpdoMappedObject(8192, 1, 8, "Int8", "Speed")>>,
                        <<TpdoMappedObject(8192, 1, 8, "Int8", "Speed"),
                          TpdoMappedObject(8192, 3, 16, "UInt16", "Torque")>>}]}

\* the object dictionary of the description file: empty, or 0x2000 with
\* sub-objects 1 (UNSIGNED16) and 2 (a type from_eds_type does not know, or
\* INTEGER16)
MergeSdoData ==
    {<<>>}
    \cup {(8192 :> SdoObject(8192, "Drive",
                  (1 :> SdoSubObject(1, "Velocity", "0x0003"))
                  @@ (2 :> SdoSubObject(2, "Status", status_type)))) :
            status_type \in {"0x0007", "0x0004"}}

MergeInit ==
    /\ ManagerInit /\ codec = None /\ mock = None /\ tpdo = None
    /\ disc = None /\ tpdo_handles = None
    /\ call \in [fn : {"merge_tpdo_configs"}, device_configs : MergeDeviceConfigs,
                 eds_configs : MergeEdsConfigs, sdo_data : MergeSdoData,
                 result : {None}]

\* merge_tpdo_configs(device_configs, eds_configs, &sdo_data) returns
MergeReturns ==
    /\ call # None /\ call.fn = "merge_tpdo_configs"
    /\ is_none(call.result)
    /\ call' = [call EXCEPT !.result = Some(merge_tpdo_configs(call.device_configs,
                                                               call.eds_configs,
                                                               call.sdo_data))]
    /\ UNCHANGED << manager_vars, codec, mock, tpdo, disc, tpdo_handles >>

MergeNext == MergeReturns

MergeSpec == MergeInit /\ [][MergeNext]_vars

\* the TPDO numbers of a list of configurations
Numbers(configs) == {configs[i].tpdo_number : i \in DOMAIN configs}

\* the name and data type the claim gives a device entry of TPDO n
NameAndType(object, n, eds_configs, sdo_data) ==
    LET in_file == {<<i, j>> \in (DOMAIN eds_configs) \X (1..8) :
                       /\ eds_configs[i].tpdo_number = n
                       /\ j \in DOMAIN eds_configs[i].mapped_objects
                       /\ eds_configs[i].mapped_objects[j].index = object.index
                       /\ eds_configs[i].mapped_objects[j].sub_index = object.sub_index}
        described == /\ object.index \in DOMAIN sdo_data
                     /\ object.sub_index \in DOMAIN sdo_data[object.index].sub_objects
    IN  IF in_file # {}
        THEN LET e == CHOOSE e \in in_file : \A o \in in_file : e[2] <= o[2]
             IN  << eds_configs[e[1]].mapped_objects[e[2]].name,
                    eds_configs[e[1]].mapped_objects[e[2]].data_type >>
        ELSE IF described
        THEN LET sub == sdo_data[object.index].sub_objects[object.sub_index] IN
             << sub.name,
                IF is_none(from_eds_type(sub.data_type)) THEN object.data_type
                ELSE from_eds_type(sub.data_type)[1] >>
        ELSE << object.name, object.data_type >>

\* C32: the merged list starts with the device's TPDOs in device order with
\* the device's COB-ID and mapping entries, goes on with the description-file
\* TPDOs whose number the device did not report, as they are, and has no TPDO
\* number twice; a device entry is named and typed by the matching entry of
\* the description-file TPDO, else by the object dictionary, else as it was
C32_MergeKeepsDevice ==
    (call # None /\ call.fn = "merge_tpdo_configs" /\ ~is_none(call.result)) =>
        LET device == call.device_configs
            eds == call.eds_configs
            merged == call.result[1]
        IN  /\ Len(merged) >= Len(device)
            /\ \A i \in DOMAIN device :
                  /\ merged[i].tpdo_number = device[i].tpdo_number
                  /\ merged[i].cob_id = device[i].cob_id
                  /\ Len(merged[i].mapped_objects) = Len(device[i].mapped_objects)
                  /\ \A j \in DOMAIN device[i].mapped_objects :
                        /\ Triple(merged[i].mapped_objects[j])
                              = Triple(device[i].mapped_objects[j])
                        /\ << merged[i].mapped_objects[j].name,
                              merged[i].mapped_objects[j].data_type >>
                              = NameAndType(device[i].mapped_objects[j],
                                            device[i].tpdo_number, eds, call.sdo_data)
            /\ SubSeq(merged, Len(device) + 1, Len(merged))
                  = SelectSeq(eds, LAMBDA e : e.tpdo_number \notin Numbers(device))
            /\ \A i, j \in DOMAIN merged :
                  merged[i].tpdo_number = merged[j].tpdo_number => i = j

\* the device reported TPDO 1 and 2 with 0x2000:02 and 0x2000:01, the file
\* describes TPDO 1 and 3, and the dictionary describes both objects: all
\* three sources of a name are used and TPDO 3 is appended
C32_Witness ==
    /\ call # None /\ call.fn = "merge_tpdo_configs" /\ ~is_none(call.result)
    /\ Numbers(call.device_configs) = {1, 2}
    /\ Numbers(call.eds_configs) = {1, 3}
    /\ call.sdo_data # <<>>
    /\ Len(call.device_configs[1].mapped_objects) = 2
    /\ Len(call.result[1]) = 3
    /\ call.result[1][1].mapped_objects[2].name = "Speed"
    /\ call.result[1][1].mapped_objects[1].name = "Status"
    /\ call.result[1][2].mapped_objects[1].name = "Velocity"

(***************************************************************************)
(* add_node with any u8                                                    *)
(***************************************************************************)
\* an expedited response for 0x1000:00 on 0x580 + d (0x5FF at most is taken as
\* an SDO response, 0x600 and 0x67F are not)
RegisterFrames == {CanFrame(FALSE, 1408 + d, Expedited1000) : d \in RegisterIds}

RegisterNext ==
    \/ \E d \in RegisterIds :
          Cardinality(DOMAIN nodes \cup {d}) <= MaxRegistered /\ AddNode(d)
    \/ \E d \in DOMAIN nodes : RemoveNode(d)
    \/ \E d \in RegisterIds :
          /\ Len(admitted) < MaxRegisterOps
          /\ d \in handles
          /\ SdoRequestCmd(d, SdoRequest(d, 4096, 0, "UInt16"))
    \/ \E f \in RegisterFrames : FrameReceived(f)
    \/ Tick
    \/ TimePasses

RegisterSpec == Init /\ [][RegisterNext]_vars

\* C33: every session the manager holds is for a device identifier in 1..127
C33_DeviceIdsInRange == DOMAIN nodes \subseteq 1..127

(***************************************************************************)
(* Late replies                                                            *)
(***************************************************************************)
\* request frames written for the operations admitted before tx
RECURSIVE SentBefore(_)
SentBefore(tx) == IF tx = 1 THEN 0 ELSE SentBefore(tx - 1) + sends[tx - 1]

\* the operation whose request frame is the k-th on the bus: device 1 has one
\* active operation at a time and takes them in admission order
Owner(k) == CHOOSE tx \in DOMAIN sends : SentBefore(tx) < k /\ k <= SentBefore(tx) + sends[tx]

\* the request frame the mock node's oldest undelivered response answers
Answered == Len(mock.handled) - Len(mock.out) + 1

\* C34: a reply of the device to an operation that has timed out (and whose
\* request went out once), arriving while a later operation of the device is
\* active, does not complete the later operation
C34_NoStaleReply ==
    [][ \A tx \in Ops :
           ( /\ mock # None /\ mock.out # <<>>
             /\ mock'.out = Tail(mock.out)
             /\ mock'.handled = mock.handled
             /\ ActiveTx(nodes, 1) = tx
             /\ Owner(Answered) # tx
             /\ rx[Owner(Answered)] = << Err(Timeout) >>
             /\ sends[Owner(Answered)] = 1 )
           => rx'[tx] = rx[tx] ]_vars

(***************************************************************************)
(* The sleep arm under traffic                                             *)
(***************************************************************************)
\* a TPDO broadcast of device 1 (0x181): not an SDO response
TpdoBroadcast == CanFrame(FALSE, 385, <<1, 2, 3, 4>>)

StarveNext ==
    \/ 1 \notin DOMAIN nodes /\ AddNode(1)
    \/ \E r \in ReadRequests(1) :
          Len(admitted) < MaxStarveOps /\ 1 \in handles /\ SdoRequestCmd(1, r)
    \/ FrameReceived(TpdoBroadcast)
    \/ Tick
    \/ TimePasses

\* time passes, and the sleep arm is taken if it is ready again and again;
\* frames and commands arrive as they please
StarveSpec ==
    Init /\ [][StarveNext]_vars /\ WF_vars(TimePasses) /\ SF_vars(Tick)

\* C35: an operation that is active on device 1, which never replies, is
\* eventually completed with Timeout, whatever unrelated frames and commands
\* arrive
C35_TimeoutNotStarved ==
    \A tx \in 1..MaxStarveOps :
        (tx \in Ops /\ ActiveTx(nodes, 1) = tx)
            ~> (IF tx \in Ops THEN rx[tx] = << Err(Timeout) >> ELSE FALSE)

(***************************************************************************)
(* communication.rs: parse_tpdo_frame and extract_value_from_bytes         *)
(***************************************************************************)
\* the decimal digits of hi * 65536 + lo
RECURSIVE Digits(_, _)
Digits(hi, lo) ==
    IF hi = 0 /\ lo < 10 THEN <<lo>>
    ELSE LET t == (hi % 10) * 65536 + lo
         IN  Append(Digits(hi \div 10, t \div 10), t % 10)

\* u32::to_string (also for u8 and u16): the decimal digits; the argument is
\* held as u32_from_le_bytes gives it
unsigned_to_string(v) == Digits((v \div 65536) % 65536, v % 65536)

\* i32::to_string (also for i8 and i16): a minus sign and the digits of the
\* magnitude
signed_to_string(v) ==
    IF v >= 0 THEN unsigned_to_string(v)
    ELSE IF v = -2147483647 - 1 THEN <<"-">> \o Digits(32768, 0)
    ELSE <<"-">> \o unsigned_to_string(-v)

\* format!("{:.2}", f32::from_le_bytes(..)): the text is fixed by the four
\* bytes, which stand for it
real32_to_string(b0, b1, b2, b3) == <<"{:.2}", b0, b1, b2, b3>>

\* data is a slice indexed from 0
extract_value_from_bytes(data, bit_offset, bit_length, data_type) ==
    LET byte_offset == bit_offset \div 8
        at(i) == data[byte_offset + i + 1]
    IN  CASE bit_length = 8 /\ data_type = "UInt8" ->
               IF byte_offset < Len(data) THEN unsigned_to_string(at(0))
               ELSE <<"N/A">>
          [] bit_length = 8 /\ data_type = "Int8" ->
               IF byte_offset < Len(data) THEN signed_to_string(as_signed(at(0), 256))
               ELSE <<"N/A">>
          [] bit_length = 16 /\ data_type = "UInt16" ->
               IF byte_offset + 1 < Len(data)
               THEN unsigned_to_string(u16_from_le_bytes(at(0), at(1)))
               ELSE <<"N/A">>
          [] bit_length = 16 /\ data_type = "Int16" ->
               IF byte_offset + 1 < Len(data)
               THEN signed_to_string(as_signed(u16_from_le_bytes(at(0), at(1)), 65536))
               ELSE <<"N/A">>
          [] bit_length = 32 /\ data_type = "UInt32" ->
               IF byte_offset + 3 < Len(data)
               THEN unsigned_to_string(u32_from_le_bytes(at(0), at(1), at(2), at(3)))
               ELSE <<"N/A">>
          [] bit_length = 32 /\ data_type = "Int32" ->
               IF byte_offset + 3 < Len(data)
               THEN signed_to_string(i32_from_le_bytes(at(0), at(1), at(2), at(3)))
               ELSE <<"N/A">>
          [] bit_length = 32 /\ data_type = "Real32" ->
               IF byte_offset + 3 < Len(data)
               THEN real32_to_string(at(0), at(1), at(2), at(3))
               ELSE <<"N/A">>
          [] OTHER -> <<"Unsupported: ", bit_length, " bits, ", data_type>>

\* the loop of parse_tpdo_frame from bit_offset on
RECURSIVE parse_fields(_, _, _)
parse_fields(data, mapped_objects, bit_offset) ==
    IF mapped_objects = <<>> THEN <<>>
    ELSE LET obj == Head(mapped_objects) IN
         << << obj.name,
               extract_value_from_bytes(data, bit_offset, obj.bit_length, obj.data_type) >> >>
         \o parse_fields(data, Tail(mapped_objects), bit_offset + obj.bit_length)

\* faulty variant: every field is read at bit offset 0
parse_tpdo_frame_at_zero(data, config) ==
    [i \in DOMAIN config.mapped_objects |->
        << config.mapped_objects[i].name,
           extract_value_from_bytes(data, 0, config.mapped_objects[i].bit_length,
                                    config.mapped_objects[i].data_type) >>]

parse_tpdo_frame(data, config) == parse_fields(data, config.mapped_objects, 0)

\* fields of a periodic frame: each combination that decodes, 8 bits typed
\* UInt16, 16 bits typed UInt8, 64 bits and 1 bit
DecodeFields ==
    {TpdoMappedObject(8192, 1, f[1], f[2], "field") :
        f \in {<<8, "UInt8">>, <<8, "Int8">>, <<16, "UInt16">>, <<16, "Int16">>,
               <<32, "UInt32">>, <<32, "Int32">>, <<32, "Real32">>,
               <<8, "UInt16">>, <<16, "UInt8">>, <<64, "UInt32">>, <<1, "UInt8">>}}

\* frame data of 0..8 bytes
DecodeData ==
    {SubSeq(bytes, 1, n) : n \in 0..8,
        bytes \in {<<52, 18, 255, 128, 0, 0, 0, 128>>,
                   <<255, 255, 255, 255, 255, 255, 255, 255>>}}

RECURSIVE SeqsUpTo(_, _)
SeqsUpTo(S, n) ==
    IF n = 0 THEN {<<>>}
    ELSE SeqsUpTo(S, n - 1)
         \cup {Append(s, x) : s \in {t \in SeqsUpTo(S, n - 1) : Len(t) = n - 1}, x \in S}

DecodeInit ==
    /\ ManagerInit /\ codec = None /\ mock = None /\ tpdo = None
    /\ disc = None /\ tpdo_handles = None
    /\ call \in [fn : {"parse_tpdo_frame"}, data : DecodeData,
                 config : {TpdoConfig(1, 385, objects) :
                              objects \in SeqsUpTo(DecodeFields, MaxFields)},
                 result : {None}]

\* parse_tpdo_frame(frame.data(), &config) returns
DecodeReturns ==
    /\ call # None /\ call.fn = "parse_tpdo_frame"
    /\ is_none(call.result)
    /\ call' = [call EXCEPT !.result = Some(parse_tpdo_frame(call.data, call.config))]
    /\ UNCHANGED << manager_vars, codec, mock, tpdo, disc, tpdo_handles >>

DecodeNext == DecodeReturns

DecodeSpec == DecodeInit /\ [][DecodeNext]_vars

\* the bit lengths and types a field decodes for
Decodable ==
    {<<8, "UInt8">>, <<8, "Int8">>, <<16, "UInt16">>, <<16, "Int16">>,
     <<32, "UInt32">>, <<32, "Int32">>, <<32, "Real32">>}

\* the sum of the bit lengths of the fields before field i
RECURSIVE BitsBefore(_, _)
BitsBefore(objects, i) ==
    IF i = 1 THEN 0 ELSE BitsBefore(objects, i - 1) + objects[i - 1].bit_length

\* the decimal number text read modulo a modulus
RECURSIVE Residue(_, _)
Residue(text, modulus) ==
    IF text = <<>> THEN 0
    ELSE (Residue(SubSeq(text, 1, Len(text) - 1), modulus) * 10 + text[Len(text)]) % modulus

\* text is the decimal form of hi * 65536 + lo: digits only, and the right
\* remainders modulo 65535, 65536 and 65537, which fix a number below 2^32
IsDecimal(text, hi, lo) ==
    /\ text # <<>>
    /\ \A i \in DOMAIN text : text[i] \in 0..9
    /\ Residue(text, 65536) = lo
    /\ Residue(text, 65535) = (hi + lo) % 65535
    /\ Residue(text, 65537) = (lo - hi + 65537) % 65537

\* text is the number the little-endian bytes hold, read as unsigned or as
\* two's complement
IsNumber(text, bytes, signed) ==
    LET b == [k \in 1..4 |-> IF k <= Len(bytes) THEN bytes[k] ELSE 0]
        lo == b[1] + 256 * b[2]
        hi == b[3] + 256 * b[4]
    IN  IF signed /\ bytes[Len(bytes)] >= 128
        THEN /\ text[1] = "-"
             /\ CASE Len(bytes) = 1 -> IsDecimal(Tail(text), 0, 256 - lo)
                  [] Len(bytes) = 2 -> IsDecimal(Tail(text), 0, 65536 - lo)
                  [] OTHER -> IF lo = 0 THEN IsDecimal(Tail(text), 65536 - hi, 0)
                              ELSE IsDecimal(Tail(text), 65535 - hi, 65536 - lo)
        ELSE IsDecimal(text, hi, lo)

\* C37: decoding a periodic frame gives one value per mapped field, in mapping
\* order; a field of a decodable (bit length, type) is read at the byte offset
\* that is the sum of the bit lengths before it divided by 8, and is the
\* number held there, or 'N/A' if it would end past the frame data; every
\* other (bit length, type) gives the 'Unsupported' text
C37_FrameDecoding ==
    (call # None /\ call.fn = "parse_tpdo_frame" /\ ~is_none(call.result)) =>
        LET objects == call.config.mapped_objects
            values == call.result[1]
        IN  /\ Len(values) = Len(objects)
            /\ \A i \in DOMAIN objects :
                  LET obj == objects[i]
                      text == values[i][2]
                      offset == BitsBefore(objects, i) \div 8
                      bytes == obj.bit_length \div 8
                  IN  /\ values[i][1] = obj.name
                      /\ IF <<obj.bit_length, obj.data_type>> \notin Decodable
                         THEN text[1] = "Unsupported: "
                         ELSE IF offset + bytes > Len(call.data)
                         THEN text = <<"N/A">>
                         ELSE IF obj.data_type = "Real32"
                         THEN text = <<"{:.2}">> \o SubSeq(call.data, offset + 1, offset + 4)
                         ELSE IsNumber(text,
                                       SubSeq(call.data, offset + 1, offset + bytes),
                                       obj.data_type \in {"Int8", "Int16", "Int32"})

\* an 8-byte frame decoded for a 16-bit field followed by a 32-bit unsigned
\* field whose top bit is set: the second field is read at byte 2
C37_Witness ==
    /\ call # None /\ call.fn = "parse_tpdo_frame" /\ ~is_none(call.result)
    /\ call.data = <<255, 255, 255, 255, 255, 255, 255, 255>>
    /\ Len(call.config.mapped_objects) = 2
    /\ call.config.mapped_objects[1].bit_length = 16
    /\ call.config.mapped_objects[1].data_type = "Int16"
    /\ call.config.mapped_objects[2].data_type = "UInt32"
    /\ call.result[1][1][2] = <<"-", 1>>
    /\ call.result[1][2][2] = <<4, 2, 9, 4, 9, 6, 7, 2, 9, 5>>


(***************************************************************************)
(* communication.rs: TPDO listener tasks of communication_thread_main      *)
(***************************************************************************)
\* Update::TpdoData(TpdoData { tpdo_number, timestamp, values }); the number of
\* the frame on the bus stands for the time it was received
TpdoData(tpdo_number, frame_no, values) ==
    [kind |-> "TpdoData", tpdo_number |-> tpdo_number, frame_no |-> frame_no,
     values |-> values]

\* Update::ConnectionFailed(String)
ConnectionFailed(msg) == [kind |-> "ConnectionFailed", msg |-> msg]

\* a task spawned for tpdo_listener_task(config, frame_rx, update_tx): its
\* configuration, the frames waiting in frame_rx, and whether abort() was
\* called on its JoinHandle
ListenerTask(config) == [config |-> config, frame_rx |-> <<>>, aborted |-> FALSE]

\* the configurations the UI starts listeners with: TPDO 1 on 0x181, TPDO 2 on
\* 0x281, one UInt8 field each
ListenerConfigs ==
    {TpdoConfig(1, 385, <<TpdoMappedObject(8192, 1, 8, "UInt8", "a")>>),
     TpdoConfig(2, 641, <<TpdoMappedObject(8192, 2, 8, "UInt8", "b")>>)}

\* frames on the bus: one of each TPDO and one with an extended identifier
ListenerFrames ==
    {CanFrame(FALSE, 385, <<7>>), CanFrame(FALSE, 641, <<9>>),
     CanFrame(TRUE, 385, <<7>>)}

\* the locals of communication_thread_main: _connection_handle is Some,
\* tpdo_handles (TPDO number -> task), the tasks spawned so far, the updates
\* sent to the UI, and the commands taken and frames broadcast so far
ListenerInit ==
    /\ ManagerInit /\ codec = None /\ mock = None /\ tpdo = None
    /\ disc = None /\ call = None
    /\ tpdo_handles = [connection_handle |-> FALSE, tpdo_handles |-> <<>>,
                       tasks |-> <<>>, updates |-> <<>>,
                       commands |-> <<>>, frames |-> <<>>]

\* a command is taken from command_rx
ListenerTaken ==
    /\ tpdo_handles # None
    /\ Len(tpdo_handles.commands) < MaxListenerCommands

\* Command::Connect that succeeds: _connection_handle = Some(conn)
ListenerConnect ==
    /\ ListenerTaken
    /\ tpdo_handles' = [tpdo_handles EXCEPT
                           !.connection_handle = TRUE,
                           !.commands = Append(@, [kind |-> "Connect"])]
    /\ UNCHANGED << manager_vars, codec, mock, tpdo, disc, call >>

\* tpdo_handles.insert(tpdo_num, tpdo_handle): the handle stored before for
\* this number is dropped, which leaves its task running
insert_handle(self, tpdo_num, task) ==
    [self EXCEPT !.tpdo_handles = (tpdo_num :> task) @@ @]

\* Command::StartTpdoListener(config); subscribed tells whether
\* subscribe_raw_frames returned Ok (the connection manager is running)
StartTpdoListener(config, subscribed) ==
    /\ ListenerTaken
    /\ LET taken == [tpdo_handles EXCEPT
                       !.commands = Append(@, [kind |-> "StartTpdoListener",
                                               tpdo_number |-> config.tpdo_number])]
       IN  IF ~tpdo_handles.connection_handle
           THEN tpdo_handles' = [taken EXCEPT !.updates =
                   Append(@, ConnectionFailed(<<"Not connected to CANopen network">>))]
           ELSE IF ~subscribed
           THEN tpdo_handles' = [taken EXCEPT !.updates =
                   Append(@, ConnectionFailed(<<"Failed to subscribe to CAN frames: ",
                                                "Request failed: ",
                                                "Connection manager died">>))]
           ELSE tpdo_handles' =
                   insert_handle([taken EXCEPT !.tasks = Append(@, ListenerTask(config))],
                                 config.tpdo_number, Len(tpdo_handles.tasks) + 1)
    /\ UNCHANGED << manager_vars, codec, mock, tpdo, disc, call >>

\* Command::StopTpdoListener(tpdo_num)
StopTpdoListener(tpdo_num) ==
    /\ ListenerTaken
    /\ LET taken == [tpdo_handles EXCEPT
                       !.commands = Append(@, [kind |-> "StopTpdoListener",
                                               tpdo_number |-> tpdo_num])]
       IN  IF tpdo_num \in DOMAIN tpdo_handles.tpdo_handles
           THEN tpdo_handles' =
                   [taken EXCEPT
                      !.tasks[tpdo_handles.tpdo_handles[tpdo_num]].aborted = TRUE,
                      !.tpdo_handles = [n \in DOMAIN @ \ {tpdo_num} |-> @[n]]]
           ELSE tpdo_handles' = taken
    /\ UNCHANGED << manager_vars, codec, mock, tpdo, disc, call >>

\* the connection manager sends a frame read from the bus to every raw-frame
\* subscriber; the receiver of an aborted task is gone
ListenerBroadcast(frame) ==
    /\ tpdo_handles # None
    /\ Len(tpdo_handles.frames) < MaxListenerFrames
    /\ tpdo_handles' =
          [tpdo_handles EXCEPT
             !.frames = Append(@, frame),
             !.tasks = [t \in DOMAIN @ |->
                          IF @[t].aborted THEN @[t]
                          ELSE [@[t] EXCEPT !.frame_rx =
                                   Append(@, Len(tpdo_handles.frames) + 1)]]]
    /\ UNCHANGED << manager_vars, codec, mock, tpdo, disc, call >>

\* one round of the loop of tpdo_listener_task: recv, and for a frame with the
\* task's COB-ID, Update::TpdoData; an aborted task is not polled again
ListenerReceives(t) ==
    /\ tpdo_handles # None
    /\ t \in DOMAIN tpdo_handles.tasks
    /\ ~tpdo_handles.tasks[t].aborted
    /\ tpdo_handles.tasks[t].frame_rx # <<>>
    /\ LET task == tpdo_handles.tasks[t]
           frame_no == Head(task.frame_rx)
           frame == tpdo_handles.frames[frame_no]
           received == [tpdo_handles EXCEPT !.tasks[t].frame_rx = Tail(@)]
       IN  IF frame.ext \/ frame.id # task.config.cob_id
           THEN tpdo_handles' = received
           ELSE tpdo_handles' = [received EXCEPT !.updates =
                   Append(@, TpdoData(task.config.tpdo_number, frame_no,
                                      parse_tpdo_frame(frame.data, task.config)))]
    /\ UNCHANGED << manager_vars, codec, mock, tpdo, disc, call >>

ListenerNext ==
    \/ ListenerConnect
    \/ \E config \in ListenerConfigs, subscribed \in BOOLEAN :
          StartTpdoListener(config, subscribed)
    \/ \E tpdo_num \in 1..2 : StopTpdoListener(tpdo_num)
    \/ \E frame \in ListenerFrames : ListenerBroadcast(frame)
    \/ \E t \in 1..MaxListenerCommands : ListenerReceives(t)

ListenerSpec == ListenerInit /\ [][ListenerNext]_vars

\* the tasks for TPDO n on which abort() was not called
RunningListeners(n) ==
    {t \in DOMAIN tpdo_handles.tasks :
        /\ ~tpdo_handles.tasks[t].aborted
        /\ tpdo_handles.tasks[t].config.tpdo_number = n}

\* C40: after any sequence of StartTpdoListener and StopTpdoListener commands
\* at most one listener task runs per TPDO number, none runs for TPDO n when
\* the last command was StopTpdoListener(n), and no frame of the bus gives two
\* TpdoData updates of one TPDO number.
C40_OneListenerPerTpdo ==
    \A n \in 1..2 :
       /\ Cardinality(RunningListeners(n)) <= 1
       /\ (/\ tpdo_handles.commands # <<>>
           /\ tpdo_handles.commands[Len(tpdo_handles.commands)]
                 = [kind |-> "StopTpdoListener", tpdo_number |-> n])
          => RunningListeners(n) = {}
       /\ \A i, j \in DOMAIN tpdo_handles.updates :
             (/\ tpdo_handles.updates[i].kind = "TpdoData"
              /\ tpdo_handles.updates[j].kind = "TpdoData"
              /\ tpdo_handles.updates[i].tpdo_number = n
              /\ tpdo_handles.updates[j].tpdo_number = n
              /\ tpdo_handles.updates[i].frame_no = tpdo_handles.updates[j].frame_no)
             => i = j

=============================================================================
